---- MODULE Spec2Model ----
(***************************************************************************)
(* Model of the S4 validation runner (src/NMD/S4_runner.py): the           *)
(* ValidationRunner with its three configuration documents, the three      *)
(* per-table stages run against the warehouse, and the exit-code policy.   *)
(*                                                                         *)
(* Conventions.  A Python dict is a TLA+ function whose DOMAIN is the set  *)
(* of keys.  A configuration document is a record whose field "none"       *)
(* tells that yaml.safe_load returned None.  Times are whole minutes on    *)
(* one UTC axis and _parse_duration is scaled from hours to minutes, so    *)
(* that "30m" stays an integer; the comparisons are unchanged by the       *)
(* scaling.  ValidationResult.duration (wall-clock) is left out.           *)
(*                                                                         *)
(* The second part models the Pydantic contracts of src/NMD/S4_pydantic:   *)
(* one record is handed to one model class (SpecContracts), and model      *)
(* classes are looked up by table and operation (SpecRegistry).            *)
(***************************************************************************)
EXTENDS Integers, Sequences, FiniteSets, TLC

VARIABLES
    files,           \* the three S2_*.yaml documents as they are on disk
    listing,         \* the warehouse's answer to list_tables
    wh,              \* the warehouse's answers per table
    now,             \* datetime.utcnow(), minutes
    quality_rules,   \* self.quality_rules
    table_contracts, \* self.table_contracts
    sla_config,      \* self.sla_config
    results,         \* self.results
    pc,              \* position of the process
    table_pattern,   \* argument of run_validation
    fail_on,         \* argument of run_validation
    tables,          \* local `tables` of run_validation
    idx,             \* position of the for loop over tables
    exit_code,       \* first component returned by run_validation
    calls,           \* log of the calls sent to the warehouse
    returned,        \* what each finished call of run_validation left behind
    candidate,       \* the record handed to a Pydantic model, and the model's name
    outcome,         \* how the constructor of the model ended
    registries,      \* MODEL_REGISTRY, CREATE_MODELS, ... of S4_pydantic/__init__.py
    lookups          \* the calls of get_model so far, each with how it ended

vars == <<files, listing, wh, now, quality_rules, table_contracts, sla_config,
          results, pc, table_pattern, fail_on, tables, idx, exit_code, calls,
          returned, candidate, outcome, registries, lookups>>

env == <<files, listing, wh, now>>
config == <<quality_rules, table_contracts, sla_config>>
validation == <<candidate, outcome, registries, lookups>>

----------------------------------------------------------------------------
(* Bounds of the model *)

MaxRequired == 2     \* longest required_fields list of a contract
MaxCount == 1        \* largest row count the aggregate query reports
MaxRuns == 2         \* calls of run_validation on one runner

----------------------------------------------------------------------------
(* Python helpers *)

None == -1

EmptyDict == [k \in {} |-> None]

\* dict.get(key, default)
Get(d, k, default) == IF k \in DOMAIN d THEN d[k] ELSE default

\* {**a, **b}
Merge(a, b) == [k \in (DOMAIN a) \cup (DOMAIN b) |-> IF k \in DOMAIN b THEN b[k] ELSE a[k]]

\* a or b, for Optional[datetime]
Or(a, b) == IF a # None THEN a ELSE b

Range(s) == {s[i] : i \in DOMAIN s}

\* the sequences over S of length at most n
SeqUpTo(S, n) == UNION {[1..k -> S] : k \in 0..n}

\* the sequences over S of length at most n without repetition
InjSeqUpTo(S, n) == {s \in SeqUpTo(S, n) : \A i, j \in DOMAIN s : s[i] = s[j] => i = j}

\* all dicts with keys in K and values in V
Dicts(K, V) == UNION {[D -> V] : D \in SUBSET K}

----------------------------------------------------------------------------
(* Exit codes *)

EXIT_SUCCESS == 0
EXIT_HARD_FAILURE == 1
EXIT_SOFT_FAILURE == 2
NoExit == -1    \* run_validation has not returned

----------------------------------------------------------------------------
(* Strings the runner looks into, character by character *)

\* the characters of the table ids and table patterns of the model
Chars(s) ==
    CASE s = "users" -> <<"u", "s", "e", "r", "s">>
      [] s = "models" -> <<"m", "o", "d", "e", "l", "s">>
      [] s = "*" -> <<"*">>
      [] s = "user*" -> <<"u", "s", "e", "r", "*">>
      [] s = "?odels" -> <<"?", "o", "d", "e", "l", "s">>
      [] s = "*s" -> <<"*", "s">>
      [] s = "users,models" -> <<"u", "s", "e", "r", "s", ",", "m", "o", "d", "e", "l", "s">>
      [] s = "nonexistent_table" -> <<"n", "o", "n", "e", "x", "i", "s", "t", "e", "n", "t",
                                      "_", "t", "a", "b", "l", "e">>

TableIds == {"users", "models"}

Patterns == {"*", "users", "user*", "?odels", "*s", "users,models", "nonexistent_table"}

RECURSIVE GlobToRegex(_)
\* pattern.replace("*", ".*").replace("?", ".")
GlobToRegex(p) ==
    IF p = <<>> THEN <<>>
    ELSE (CASE Head(p) = "*" -> <<".", "*">>
            [] Head(p) = "?" -> <<".">>
            [] OTHER -> <<Head(p)>>) \o GlobToRegex(Tail(p))

\* one regex atom against one character: "." matches any character
AtomMatch(a, c) == a = "." \/ a = c

RECURSIVE RegexMatch(_, _)
\* re.compile("^" + regex + "$").match(s), for literals, "." and "<atom>*"
RegexMatch(re, s) ==
    IF re = <<>> THEN s = <<>>
    ELSE IF Len(re) >= 2 /\ re[2] = "*"
         THEN \/ RegexMatch(SubSeq(re, 3, Len(re)), s)
              \/ (s # <<>> /\ AtomMatch(re[1], Head(s)) /\ RegexMatch(re, Tail(s)))
         ELSE s # <<>> /\ AtomMatch(re[1], Head(s)) /\ RegexMatch(Tail(re), Tail(s))

\* field_def.get('type', '').upper()
Upper(s) ==
    CASE s = "string" -> "STRING"
      [] s = "integer" -> "INTEGER"
      [] OTHER -> s

----------------------------------------------------------------------------
(* Configuration documents *)

\* the dict {} as each of the three documents
EmptyQualityRules == [none |-> FALSE, global_rules |-> EmptyDict, table_rules |-> EmptyDict]
EmptyTableContracts == [none |-> FALSE, tables |-> EmptyDict]
EmptySlaConfig == [none |-> FALSE, freshness_slas |-> EmptyDict]

\* what yaml.safe_load returns for an empty document
NoneDoc == [none |-> TRUE]

\* a file on disk: missing, not parsable, empty, or holding a document
FileStates(docs) ==
    {[state |-> s, doc |-> NoneDoc] : s \in {"missing", "unparsable", "empty"}}
    \cup {[state |-> "ok", doc |-> d] : d \in docs}

_load_quality_rules(f) ==
    IF f.state = "missing" THEN EmptyQualityRules
    ELSE IF f.state = "unparsable" THEN EmptyQualityRules
    ELSE IF f.state = "empty" THEN NoneDoc
    ELSE f.doc

_load_table_contracts(f) ==
    IF f.state = "missing" THEN EmptyTableContracts
    ELSE IF f.state = "unparsable" THEN EmptyTableContracts
    ELSE IF f.state = "empty" THEN NoneDoc
    ELSE f.doc

_load_sla_config(f) ==
    IF f.state = "missing" THEN EmptySlaConfig
    ELSE IF f.state = "unparsable" THEN EmptySlaConfig
    ELSE IF f.state = "empty" THEN NoneDoc
    ELSE f.doc

----------------------------------------------------------------------------
(* ValidationResult *)

\* a message: the text of the f-string, what it is about, and the number in it
Msg(text, subject, n) == [text |-> text, subject |-> subject, n |-> n]

ValidationResult(name, category) ==
    [name |-> name, category |-> category, passed |-> TRUE,
     errors |-> <<>>, warnings |-> <<>>, details |-> EmptyDict]

\* mutant: an error is recorded without marking the result failed
add_error_keeps_passed(r, message) == [r EXCEPT !.errors = Append(@, message)]

add_error(r, message) == [r EXCEPT !.errors = Append(@, message), !.passed = FALSE]

\* mutant: a warning marks the result failed as an error does
add_warning_failing(r, message) ==
    [r EXCEPT !.warnings = Append(@, message), !.passed = FALSE]

add_warning(r, message) == [r EXCEPT !.warnings = Append(@, message)]

\* result.details[key] = value
set_detail(r, key, value) == [r EXCEPT !.details = Merge(@, [k \in {key} |-> value])]

RECURSIVE add_errors(_, _)
\* add_error for each message of a sequence, in order
add_errors(r, messages) ==
    IF messages = <<>> THEN r
    ELSE add_errors(add_error(r, Head(messages)), Tail(messages))

----------------------------------------------------------------------------
(* get_matching_tables *)

\* a call sent to the warehouse
Call(op, table) == [op |-> op, table |-> table]

\* regex.match(table.table_id) for the regex made from the glob pattern
PatternMatches(pattern, table_id) == RegexMatch(GlobToRegex(Chars(pattern)), Chars(table_id))

\* mutant: the pattern is not applied to the listing
get_matching_tables_unfiltered(pattern) ==
    IF listing.fail THEN <<>> ELSE listing.tables

get_matching_tables(pattern) ==
    IF listing.fail THEN <<>>
    ELSE IF pattern = "*" THEN listing.tables
    ELSE SelectSeq(listing.tables, LAMBDA t : PatternMatches(pattern, t))

----------------------------------------------------------------------------
(* validate_schema_compliance *)

FieldNames == {"id", "created_at"}

\* the order in which the items of a contract's `fields` dict are visited
FieldOrder == <<"id", "created_at">>

RECURSIVE RequiredErrors(_, _)
\* one error for each entry of required_fields that is not in the schema
RequiredErrors(required_fields, schema_fields) ==
    IF required_fields = <<>> THEN <<>>
    ELSE (IF Head(required_fields) \notin DOMAIN schema_fields
          THEN <<Msg("Required field missing from schema", Head(required_fields), 0)>>
          ELSE <<>>) \o RequiredErrors(Tail(required_fields), schema_fields)

\* mutant: the declared type is compared as written, without upper()
TypeMismatch_as_written(field_name, field_definitions, schema_fields) ==
    /\ field_name \in DOMAIN field_definitions
    /\ field_name \in DOMAIN schema_fields
    /\ field_definitions[field_name] # ""
    /\ schema_fields[field_name] # field_definitions[field_name]

\* the test of the field-type loop for one contract field
TypeMismatch(field_name, field_definitions, schema_fields) ==
    /\ field_name \in DOMAIN field_definitions
    /\ field_name \in DOMAIN schema_fields
    /\ Upper(field_definitions[field_name]) # ""
    /\ schema_fields[field_name] # Upper(field_definitions[field_name])

RECURSIVE TypeErrors(_, _, _)
\* one error for each contract field present with another type
TypeErrors(order, field_definitions, schema_fields) ==
    IF order = <<>> THEN <<>>
    ELSE (IF TypeMismatch(Head(order), field_definitions, schema_fields)
          THEN <<Msg("Field type mismatch", Head(order), 0)>>
          ELSE <<>>) \o TypeErrors(Tail(order), field_definitions, schema_fields)

validate_schema_compliance(table_name) ==
    LET result == ValidationResult(table_name, "schema_compliance")
        table == wh[table_name]
    IN  IF table.lookup = "notfound"
        THEN add_error(result, Msg("Table not found in dataset", table_name, 0))
        ELSE IF table.lookup = "error"
        THEN add_error(result, Msg("Schema validation failed", table_name, 0))
        ELSE IF table_contracts.none
        THEN add_error(result, Msg("Schema validation failed", table_name, 0))
        ELSE IF table_name \notin DOMAIN table_contracts.tables
        THEN add_warning(result, Msg("No schema contract defined", table_name, 0))
        ELSE LET contract == table_contracts.tables[table_name]
                 schema_fields == table.schema
                 required_fields == contract.required_fields
                 field_definitions == contract.fields
                 checked == add_errors(
                     add_errors(result, RequiredErrors(required_fields, schema_fields)),
                     TypeErrors(FieldOrder, field_definitions, schema_fields))
             IN  set_detail(checked, "table_schema",
                     [field_count |-> Cardinality(DOMAIN schema_fields),
                      required_fields_checked |-> Len(required_fields),
                      contract_fields_checked |-> Cardinality(DOMAIN field_definitions)])

schema_calls(table_name) == <<Call("get_table", table_name)>>

----------------------------------------------------------------------------
(* validate_data_constraints *)

\* the key f'pattern_{pattern_name}' of result.details
PatternKey(pattern_name) ==
    CASE pattern_name = "uuid" -> "pattern_uuid"
      [] pattern_name = "email" -> "pattern_email"

RECURSIVE PatternDetails(_, _, _)
\* result.details[f'pattern_{name}'] = ... for every pattern
PatternDetails(r, names, patterns) ==
    IF names = {} THEN r
    ELSE LET n == CHOOSE x \in names : TRUE
         IN  PatternDetails(set_detail(r, PatternKey(n), patterns[n]), names \ {n}, patterns)

\* all_rules = {**global_rules, **table_rules}
all_rules(table_name) ==
    Merge(quality_rules.global_rules, Get(quality_rules.table_rules, table_name, EmptyDict))

\* whether the stage gets as far as sending the aggregate query
aggregate_query_sent(table_name) ==
    /\ ~quality_rules.none
    /\ DOMAIN all_rules(table_name) # {}
    /\ DOMAIN Get(all_rules(table_name), "timestamps", EmptyDict) # {}

\* the checks on the row of the aggregate query
TimestampErrors(row) ==
    (IF row.null_created_at > 0
     THEN <<Msg("Found rows with NULL created_at", "created_at", row.null_created_at)>>
     ELSE <<>>)
    \o (IF row.future_created_at > 0
        THEN <<Msg("Found rows with future created_at", "created_at", row.future_created_at)>>
        ELSE <<>>)
    \o (IF row.invalid_updated_at > 0
        THEN <<Msg("Found rows with updated_at < created_at", "updated_at", row.invalid_updated_at)>>
        ELSE <<>>)

validate_data_constraints(table_name) ==
    LET result == ValidationResult(table_name, "data_constraints")
    IN  IF quality_rules.none
        THEN add_error(result, Msg("Data constraint validation failed", table_name, 0))
        ELSE IF DOMAIN all_rules(table_name) = {}
        THEN add_warning(result, Msg("No data quality rules defined", table_name, 0))
        ELSE LET patterns == Get(all_rules(table_name), "patterns", EmptyDict)
                 with_patterns == PatternDetails(result, DOMAIN patterns, patterns)
                 timestamp_rules == Get(all_rules(table_name), "timestamps", EmptyDict)
                 answer == wh[table_name].agg
             IN  IF DOMAIN timestamp_rules = {} THEN with_patterns
                 ELSE IF answer.fail
                 THEN add_warning(with_patterns,
                                  Msg("Could not validate timestamps", table_name, 0))
                 ELSE IF answer.rows = <<>> THEN with_patterns
                 ELSE LET row == answer.rows[1]
                      IN  set_detail(add_errors(with_patterns, TimestampErrors(row)),
                              "timestamp_validation",
                              [total_rows_checked |-> row.total_rows,
                               null_created_at |-> row.null_created_at,
                               future_created_at |-> row.future_created_at,
                               invalid_updated_at |-> row.invalid_updated_at])

data_calls(table_name) ==
    IF aggregate_query_sent(table_name) THEN <<Call("aggregate_query", table_name)>> ELSE <<>>

----------------------------------------------------------------------------
(* validate_freshness_sla *)

\* a duration string: its number (valid iff float() accepts it) and its suffix
Duration(n, unit) == [valid |-> TRUE, n |-> n, unit |-> unit]
BadDuration == [valid |-> FALSE, n |-> 0, unit |-> "h"]

\* _parse_duration, in minutes; it raises ValueError iff ~duration_str.valid
_parse_duration(duration_str) ==
    IF duration_str.unit = "h" THEN duration_str.n * 60
    ELSE IF duration_str.unit = "d" THEN duration_str.n * 24 * 60
    ELSE IF duration_str.unit = "m" THEN duration_str.n
    ELSE duration_str.n * 60

\* mutant: core_tables is scanned first
SlaCategories_core_first == <<"core_tables", "live_data_tables">>

\* the order in which the SLA categories are scanned
SlaCategories == <<"live_data_tables", "core_tables">>

RECURSIVE ScanSla(_, _, _)
\* the for loop over the categories, with its break: [found, entry]
ScanSla(categories, freshness_slas, table_name) ==
    IF categories = <<>> THEN [found |-> FALSE, entry |-> EmptyDict]
    ELSE IF /\ Head(categories) \in DOMAIN freshness_slas
            /\ table_name \in DOMAIN freshness_slas[Head(categories)]
         THEN [found |-> TRUE, entry |-> freshness_slas[Head(categories)][table_name]]
         ELSE ScanSla(Tail(categories), freshness_slas, table_name)

\* sla_config after the loop; `not sla_config` holds iff ~found or the entry is {}
find_sla(table_name) == ScanSla(SlaCategories, sla_config.freshness_slas, table_name)

no_sla(table_name) ==
    \/ ~find_sla(table_name).found
    \/ DOMAIN find_sla(table_name).entry = {}

max_staleness(table_name) ==
    Get(find_sla(table_name).entry, "max_staleness", Duration(24, "h"))

late_threshold(table_name) ==
    Get(find_sla(table_name).entry, "late_arrival_threshold", Duration(12, "h"))

\* whether the stage gets as far as sending the freshness query
freshness_query_sent(table_name) ==
    /\ ~sla_config.none
    /\ ~no_sla(table_name)
    /\ max_staleness(table_name).valid
    /\ late_threshold(table_name).valid

\* latest_timestamp = row.latest_updated_at or row.latest_created_at
latest_timestamp(row) == Or(row.latest_updated_at, row.latest_created_at)

\* time_diff = now - latest_timestamp
staleness_actual(row) == now - latest_timestamp(row)

\* mutant: the second comparison is an `if`, not an `elif`
staleness_warnings_both(r, staleness, staleness_limit, threshold) ==
    LET first == IF staleness > staleness_limit
                 THEN add_warning(r, Msg("Data is stale", "max_staleness", staleness))
                 ELSE r
    IN  IF staleness > threshold
        THEN add_warning(first, Msg("Data approaching staleness", "late_arrival_threshold", staleness))
        ELSE first

\* the warnings of the staleness comparison
staleness_warnings(r, staleness, staleness_limit, threshold) ==
    IF staleness > staleness_limit
    THEN add_warning(r, Msg("Data is stale", "max_staleness", staleness))
    ELSE IF staleness > threshold
    THEN add_warning(r, Msg("Data approaching staleness", "late_arrival_threshold", staleness))
    ELSE r

validate_freshness_sla(table_name) ==
    LET result == ValidationResult(table_name, "freshness_sla")
    IN  IF sla_config.none
        THEN add_warning(result, Msg("Freshness validation failed", table_name, 0))
        ELSE IF no_sla(table_name)
        THEN add_warning(result, Msg("No SLA configuration found", table_name, 0))
        ELSE IF ~max_staleness(table_name).valid \/ ~late_threshold(table_name).valid
        THEN add_warning(result, Msg("Freshness validation failed", table_name, 0))
        ELSE LET staleness_hours == _parse_duration(max_staleness(table_name))
                 threshold_hours == _parse_duration(late_threshold(table_name))
                 answer == wh[table_name].fresh
             IN  IF answer.fail
                 THEN add_warning(result, Msg("Could not check freshness", table_name, 0))
                 ELSE IF answer.rows # <<>> /\ answer.rows[1].total_rows > 0
                 THEN LET row == answer.rows[1]
                      IN  IF latest_timestamp(row) # None
                          THEN staleness_warnings(
                                   set_detail(result, "freshness_check",
                                       [latest_timestamp |-> latest_timestamp(row),
                                        staleness_hours |-> staleness_actual(row),
                                        max_allowed_hours |-> staleness_hours,
                                        total_rows |-> row.total_rows]),
                                   staleness_actual(row), staleness_hours, threshold_hours)
                          ELSE add_warning(result,
                                   Msg("No timestamp data found for freshness check", table_name, 0))
                 ELSE add_warning(result, Msg("Table is empty", table_name, 0))

freshness_calls(table_name) ==
    IF freshness_query_sent(table_name) THEN <<Call("freshness_query", table_name)>> ELSE <<>>

----------------------------------------------------------------------------
(* _determine_exit_code *)

has_errors(rs) == \E i \in DOMAIN rs : ~rs[i].passed

has_warnings(rs) == \E i \in DOMAIN rs : rs[i].warnings # <<>>

\* mutant: warnings fail the run whatever fail_on is
_determine_exit_code_ignoring_mode(rs, mode) ==
    IF has_errors(rs) THEN EXIT_HARD_FAILURE
    ELSE IF has_warnings(rs) THEN EXIT_SOFT_FAILURE
    ELSE EXIT_SUCCESS

_determine_exit_code(rs, mode) ==
    IF has_errors(rs) THEN EXIT_HARD_FAILURE
    ELSE IF mode = "warn" /\ has_warnings(rs) THEN EXIT_SOFT_FAILURE
    ELSE EXIT_SUCCESS

----------------------------------------------------------------------------
(* _generate_summary *)

RECURSIVE SumOver(_, _)
\* sum(f(r) for r in self.results), f given as the sequence of its values
SumOver(values, n) ==
    IF n = 0 THEN 0 ELSE SumOver(values, n - 1) + values[n]

\* mutant: a check counts as passed when it has no warning
passed_flag_no_warnings(r) == IF r.warnings = <<>> THEN 1 ELSE 0

\* 1 for r in self.results if r.passed
passed_flag(r) == IF r.passed THEN 1 ELSE 0

\* the categories in the order the loop meets them are the keys of by_category
CategoriesOf(rs) == {rs[i].category : i \in DOMAIN rs}

\* the counters of one category after the loop over self.results
CategoryCounters(rs, category) ==
    LET mine(i) == rs[i].category = category
    IN  [passed   |-> SumOver([i \in DOMAIN rs |->
                          IF mine(i) /\ rs[i].passed THEN 1 ELSE 0], Len(rs)),
         failed   |-> SumOver([i \in DOMAIN rs |->
                          IF mine(i) /\ ~rs[i].passed THEN 1 ELSE 0], Len(rs)),
         warnings |-> SumOver([i \in DOMAIN rs |->
                          IF mine(i) THEN Len(rs[i].warnings) ELSE 0], Len(rs))]

\* project_id and dataset_id of the runner: one project, one dataset
ProjectId == "project"
DatasetId == "dataset"

\* the summary dictionary; success_rate is given by the two numbers it is
\* formatted from, results as for the json output format
_generate_summary(rs) ==
    LET total_checks   == Len(rs)
        passed_checks  == SumOver([i \in DOMAIN rs |-> passed_flag(rs[i])], Len(rs))
        failed_checks  == total_checks - passed_checks
        total_warnings == SumOver([i \in DOMAIN rs |-> Len(rs[i].warnings)], Len(rs))
        total_errors   == SumOver([i \in DOMAIN rs |-> Len(rs[i].errors)], Len(rs))
    IN  [timestamp   |-> now,
         project_id  |-> ProjectId,
         dataset_id  |-> DatasetId,
         summary     |-> [total_checks   |-> total_checks,
                          passed_checks  |-> passed_checks,
                          failed_checks  |-> failed_checks,
                          total_warnings |-> total_warnings,
                          total_errors   |-> total_errors,
                          success_rate   |-> [passed |-> passed_checks,
                                              total  |-> total_checks]],
         by_category |-> [c \in CategoriesOf(rs) |-> CategoryCounters(rs, c)],
         results     |-> rs]

\* the dictionary run_validation returns when no table matches
NoMatchingTables == [error |-> "No matching tables found"]

----------------------------------------------------------------------------
(* The process: construction, then run_validation step by step *)

\* the pair a call of run_validation returned (exit code and summary), and
\* self.results as the call left it
Returned(code, rs, summary) == [exit_code |-> code, results |-> rs, summary |-> summary]

\* ValidationRunner.__init__: the three documents are loaded
Construct ==
    /\ pc = "new"
    /\ quality_rules' = _load_quality_rules(files.quality)
    /\ table_contracts' = _load_table_contracts(files.contracts)
    /\ sla_config' = _load_sla_config(files.sla)
    /\ pc' = "ready"
    /\ UNCHANGED <<env, validation, results, table_pattern, fail_on, tables, idx, exit_code, calls,
                   returned>>

\* run_validation up to the loop, when no table matches: it returns at once
RunNoTables ==
    /\ pc = "ready"
    /\ get_matching_tables(table_pattern) = <<>>
    /\ calls' = Append(calls, Call("list_tables", "*"))
    /\ exit_code' = EXIT_HARD_FAILURE
    /\ returned' = Append(returned, Returned(EXIT_HARD_FAILURE, results, NoMatchingTables))
    /\ pc' = "done"
    /\ UNCHANGED <<env, validation, config, results, table_pattern, fail_on, tables, idx>>

\* run_validation up to the loop, when some table matches
RunStart ==
    /\ pc = "ready"
    /\ get_matching_tables(table_pattern) # <<>>
    /\ calls' = Append(calls, Call("list_tables", "*"))
    /\ tables' = get_matching_tables(table_pattern)
    /\ idx' = 1
    /\ pc' = "schema"
    /\ UNCHANGED <<env, validation, config, results, table_pattern, fail_on, exit_code, returned>>

\* schema_result = self.validate_schema_compliance(table_name); append
SchemaStage ==
    /\ pc = "schema"
    /\ results' = Append(results, validate_schema_compliance(tables[idx]))
    /\ calls' = calls \o schema_calls(tables[idx])
    /\ pc' = "data"
    /\ UNCHANGED <<env, validation, config, table_pattern, fail_on, tables, idx, exit_code, returned>>

\* constraint_result = self.validate_data_constraints(table_name); append
DataStage ==
    /\ pc = "data"
    /\ results' = Append(results, validate_data_constraints(tables[idx]))
    /\ calls' = calls \o data_calls(tables[idx])
    /\ pc' = "freshness"
    /\ UNCHANGED <<env, validation, config, table_pattern, fail_on, tables, idx, exit_code, returned>>

\* mutant: the loop is left after its first table
FreshnessStage_first_table_only ==
    /\ pc = "freshness"
    /\ results' = Append(results, validate_freshness_sla(tables[idx]))
    /\ calls' = calls \o freshness_calls(tables[idx])
    /\ idx' = idx + 1
    /\ pc' = "analyze"
    /\ UNCHANGED <<env, validation, config, table_pattern, fail_on, tables, exit_code, returned>>

\* freshness_result = self.validate_freshness_sla(table_name); append; next table
FreshnessStage ==
    /\ pc = "freshness"
    /\ results' = Append(results, validate_freshness_sla(tables[idx]))
    /\ calls' = calls \o freshness_calls(tables[idx])
    /\ idx' = idx + 1
    /\ pc' = IF idx < Len(tables) THEN "schema" ELSE "analyze"
    /\ UNCHANGED <<env, validation, config, table_pattern, fail_on, tables, exit_code, returned>>

\* exit_code = self._determine_exit_code(fail_on); return
Finish ==
    /\ pc = "analyze"
    /\ exit_code' = _determine_exit_code(results, fail_on)
    /\ returned' = Append(returned, Returned(_determine_exit_code(results, fail_on), results,
                                         _generate_summary(results)))
    /\ pc' = "done"
    /\ UNCHANGED <<env, validation, config, results, table_pattern, fail_on, tables, idx, calls>>

\* run_validation is called once more on the same runner: nothing of the
\* object is reset between the calls (self.results is assigned in __init__ only)
RunAgain ==
    /\ pc = "done"
    /\ Len(returned) < MaxRuns
    /\ exit_code' = NoExit
    /\ pc' = "ready"
    /\ UNCHANGED <<env, validation, config, results, table_pattern, fail_on, tables, idx, calls, returned>>

Next ==
    \/ Construct
    \/ RunNoTables
    \/ RunStart
    \/ SchemaStage
    \/ DataStage
    \/ FreshnessStage
    \/ Finish

\* a runner that is asked to validate more than once
NextTwice ==
    \/ Next
    \/ RunAgain

\* the warehouse calls of the stage the loop is at
stage_calls(stage, table_name) ==
    CASE stage = "schema" -> schema_calls(table_name)
      [] stage = "data" -> data_calls(table_name)
      [] stage = "freshness" -> freshness_calls(table_name)

\* the result the stage the loop is at returns when it runs to its end
stage_result(stage, table_name) ==
    CASE stage = "schema" -> validate_schema_compliance(table_name)
      [] stage = "data" -> validate_data_constraints(table_name)
      [] stage = "freshness" -> validate_freshness_sla(table_name)

\* main: KeyboardInterrupt while run_validation is in its loop. The stages
\* catch Exception only, which KeyboardInterrupt is not: it leaves the stage
\* that is running (before or after its warehouse call was sent), leaves
\* run_validation without a return value, and main exits with
\* EXIT_HARD_FAILURE.
Interrupt ==
    /\ pc \in {"schema", "data", "freshness"}
    /\ \E sent \in BOOLEAN :
          calls' = IF sent THEN calls \o stage_calls(pc, tables[idx]) ELSE calls
    /\ exit_code' = EXIT_HARD_FAILURE
    /\ pc' = "interrupted"
    /\ UNCHANGED <<env, validation, config, results, table_pattern, fail_on, tables, idx,
                   returned>>

\* a run that the user may interrupt
NextInterrupted ==
    \/ Next
    \/ Interrupt

----------------------------------------------------------------------------
(* The environment: answers of the warehouse, documents on disk *)

\* datetime.utcnow() of the run, in minutes
Now == 100 * 60

\* a timestamp that lies h hours before Now
HoursAgo(h) == Now - h * 60

AggRow(total, nc, nu, fc, iu) ==
    [total_rows |-> total, null_created_at |-> nc, null_updated_at |-> nu,
     future_created_at |-> fc, invalid_updated_at |-> iu]

\* the answer to a query: it raises, or it yields rows
Failed == [fail |-> TRUE, rows |-> <<>>]
Rows(rows) == [fail |-> FALSE, rows |-> rows]

FreshRow(created, updated, total) ==
    [latest_created_at |-> created, latest_updated_at |-> updated, total_rows |-> total]

Table(lookup, schema, agg, fresh) ==
    [lookup |-> lookup, schema |-> schema, agg |-> agg, fresh |-> fresh]

\* a table the warehouse does not answer for
AbsentTable == Table("notfound", EmptyDict, Failed, Failed)

Listings == {[fail |-> TRUE, tables |-> <<>>]}
            \cup {[fail |-> FALSE, tables |-> l] : l \in InjSeqUpTo(TableIds, Cardinality(TableIds))}

\* the warehouses that answer with one of `answers` for the listed tables the
\* pattern matches; the other tables are never asked about
Warehouses(l, pattern, answers) ==
    {w \in [TableIds -> answers \cup {AbsentTable}] :
        \A t \in TableIds :
            (t \notin Range(l.tables) \/ ~PatternMatches(pattern, t)) => w[t] = AbsentTable}

GoodSchema == [f \in FieldNames |-> IF f = "id" THEN "STRING" ELSE "TIMESTAMP"]

SampleContracts ==
    [none |-> FALSE,
     tables |-> [t \in {"users"} |->
        [required_fields |-> <<"id", "created_at">>,
         fields |-> [f \in FieldNames |-> IF f = "id" THEN "string" ELSE "TIMESTAMP"]]]]

SampleQualityRules ==
    [none |-> FALSE,
     global_rules |-> [k \in {"timestamps"} |-> [r \in {"no_future"} |-> "true"]],
     table_rules |-> [t \in {"users"} |-> [k \in {"patterns"} |-> [r \in {"uuid"} |-> "re_users"]]]]

SampleSlaConfig ==
    [none |-> FALSE,
     freshness_slas |-> [c \in {"live_data_tables"} |-> [t \in {"users"} |->
        [k \in {"max_staleness", "late_arrival_threshold"} |->
            IF k = "max_staleness" THEN Duration(24, "h") ELSE Duration(12, "h")]]]]

Unloaded == NoneDoc

----------------------------------------------------------------------------
(* S4_pydantic/__init__.py: the registries and get_model *)

\* how many calls of get_model are followed
MaxLookups == 2

\* the tables that have a model file, and the class each one's model is
ClassOf(table_name) ==
    CASE table_name = "equipment_registry" -> "EquipmentRegistry"
      [] table_name = "users" -> "Users"
      [] table_name = "diagnostic_sessions" -> "DiagnosticSessions"
      [] table_name = "parts_inventory" -> "PartsInventory"
      [] table_name = "maintenance_predictions" -> "MaintenancePredictions"
      [] table_name = "reddit_diagnostic_posts" -> "RedditDiagnosticPosts"
      [] table_name = "models" -> "Models"
      [] table_name = "feature_store" -> "FeatureStore"

RegisteredTables ==
    {"equipment_registry", "users", "diagnostic_sessions", "parts_inventory",
     "maintenance_predictions", "reddit_diagnostic_posts", "models", "feature_store"}

\* the tables that have a Summary model
SummarisedTables == RegisteredTables \ {"equipment_registry", "users"}

\* a model class: the class of the table and the variant of it
ModelClass(table_name, variant) == [class |-> ClassOf(table_name), variant |-> variant]

\* the value None of a registry entry
NoModelClass == [class |-> "None", variant |-> ""]

MODEL_REGISTRY == [t \in RegisteredTables |-> ModelClass(t, "")]
CREATE_MODELS == [t \in RegisteredTables |-> ModelClass(t, "Create")]
UPDATE_MODELS == [t \in RegisteredTables |-> ModelClass(t, "Update")]
RESPONSE_MODELS == [t \in RegisteredTables |-> ModelClass(t, "Response")]
SUMMARY_MODELS == [t \in SummarisedTables |-> ModelClass(t, "Summary")]

\* the five module-level dictionaries as the import leaves them
Registries ==
    [MODEL_REGISTRY |-> MODEL_REGISTRY, CREATE_MODELS |-> CREATE_MODELS,
     UPDATE_MODELS |-> UPDATE_MODELS, RESPONSE_MODELS |-> RESPONSE_MODELS,
     SUMMARY_MODELS |-> SUMMARY_MODELS]

\* how a call ended: it returned a value or raised KeyError
ReturnedClass(model_class) == [kind |-> "returned", value |-> model_class, msg |-> ""]
KeyError(msg) == [kind |-> "KeyError", value |-> NoModelClass, msg |-> msg]

\* the local dictionary `registries` of get_model
registries_by_operation ==
    [operation \in {"base", "create", "update", "response", "summary"} |->
        CASE operation = "base" -> registries.MODEL_REGISTRY
          [] operation = "create" -> registries.CREATE_MODELS
          [] operation = "update" -> registries.UPDATE_MODELS
          [] operation = "response" -> registries.RESPONSE_MODELS
          [] operation = "summary" -> registries.SUMMARY_MODELS]

\* mutant: the registry is read with dict.get, a missing table gives None
get_model_or_none(table_name, operation) ==
    IF operation \notin DOMAIN registries_by_operation
    THEN KeyError("Unknown operation")
    ELSE ReturnedClass(Get(registries_by_operation[operation], table_name, NoModelClass))

get_model(table_name, operation) ==
    IF operation \notin DOMAIN registries_by_operation
    THEN KeyError("Unknown operation")
    ELSE LET registry == registries_by_operation[operation]
         IN  IF table_name \notin DOMAIN registry
             THEN KeyError("Unknown table")
             ELSE IF registry[table_name] = NoModelClass
             THEN KeyError("No model available for table")
             ELSE ReturnedClass(registry[table_name])

\* list(MODEL_REGISTRY.keys()), as the set of its elements
get_table_names == DOMAIN registries.MODEL_REGISTRY

get_available_operations(table_name) ==
    (IF table_name \in DOMAIN registries.MODEL_REGISTRY THEN <<"base">> ELSE <<>>)
    \o (IF table_name \in DOMAIN registries.CREATE_MODELS THEN <<"create">> ELSE <<>>)
    \o (IF /\ table_name \in DOMAIN registries.UPDATE_MODELS
           /\ registries.UPDATE_MODELS[table_name] # NoModelClass
        THEN <<"update">> ELSE <<>>)
    \o (IF table_name \in DOMAIN registries.RESPONSE_MODELS THEN <<"response">> ELSE <<>>)
    \o (IF table_name \in DOMAIN registries.SUMMARY_MODELS THEN <<"summary">> ELSE <<>>)

\* the table names and operations callers ask for: the registered tables, a
\* table whose model file is missing, a name no registry knows, and the five
\* operations and one that does not exist
LookupTables == RegisteredTables \cup {"sensor_telemetry", "no_such_table"}
LookupOperations == {"base", "create", "update", "response", "summary", "delete"}

\* one call of get_model; the registries are only read
Lookup ==
    /\ Len(lookups) < MaxLookups
    /\ \E table_name \in LookupTables, operation \in LookupOperations :
          lookups' = Append(lookups, [table_name |-> table_name, operation |-> operation,
                                      result |-> get_model(table_name, operation)])
    /\ UNCHANGED <<env, config, results, pc, table_pattern, fail_on, tables, idx, exit_code,
                   calls, returned, candidate, outcome, registries>>

\* no record has been handed to a Pydantic model
NoCandidate == [model |-> "", data |-> EmptyDict]
NoOutcome == [kind |-> "pending", value |-> EmptyDict, errors |-> <<>>]

\* what every specification of the runner starts from, the environment apart
InitProcess ==
    /\ candidate = NoCandidate
    /\ outcome = NoOutcome
    /\ registries = Registries
    /\ lookups = <<>>
    /\ now = Now
    /\ quality_rules = Unloaded
    /\ table_contracts = Unloaded
    /\ sla_config = Unloaded
    /\ results = <<>>
    /\ pc = "new"
    /\ tables = <<>>
    /\ idx = 0
    /\ exit_code = NoExit
    /\ calls = <<>>
    /\ returned = <<>>

\* whole runs: every combination of failing calls and of configuration gaps
RunFileStates(doc) ==
    {[state |-> s, doc |-> IF s = "ok" THEN doc ELSE NoneDoc] : s \in {"ok", "missing", "empty"}}

RunTables ==
    {Table(lookup, GoodSchema, agg, fresh) :
        lookup \in {"ok", "notfound", "error"},
        agg \in {Failed, Rows(<<AggRow(1, 0, 0, 0, 0)>>), Rows(<<AggRow(1, 0, 0, 0, 1)>>)},
        fresh \in {Failed, Rows(<<FreshRow(HoursAgo(10), HoursAgo(10), 1)>>)}}

Init ==
    /\ InitProcess
    /\ files \in [quality : RunFileStates(SampleQualityRules),
                  contracts : RunFileStates(SampleContracts),
                  sla : RunFileStates(SampleSlaConfig)]
    /\ listing \in Listings
    /\ table_pattern \in {"*", "user*", "nonexistent_table", "users,models"}
    /\ wh \in Warehouses(listing, table_pattern, RunTables)
    /\ fail_on \in {"warn", "error"}

Spec == Init /\ [][Next]_vars

----------------------------------------------------------------------------
(* One table, one stage in detail: the other two stages find no document  *)
(* and no answer                                                           *)

MissingFile == [state |-> "missing", doc |-> NoneDoc]

\* the warehouses that list "users" only and answer for it with one of `answers`
OneTable(answers) ==
    {[t \in TableIds |-> IF t = "users" THEN a ELSE AbsentTable] : a \in answers}

InitOneTable ==
    /\ InitProcess
    /\ listing = [fail |-> FALSE, tables |-> <<"users">>]
    /\ table_pattern \in {"users", "nonexistent_table"}
    /\ fail_on = "error"

\* schema compliance: contracts and schemas over FieldNames
DeclaredTypes == {"", "string", "STRING", "INTEGER"}
ActualTypes == {"STRING", "INTEGER"}

Contracts ==
    [required_fields : SeqUpTo(FieldNames, MaxRequired),
     fields : Dicts(FieldNames, DeclaredTypes)]

ContractDocs ==
    {EmptyTableContracts}
    \cup {[none |-> FALSE, tables |-> [t \in {"users"} |-> c]] : c \in Contracts}

SchemaTables ==
    {Table("ok", schema, Failed, Failed) : schema \in Dicts(FieldNames, ActualTypes)}
    \cup {Table(lookup, EmptyDict, Failed, Failed) : lookup \in {"notfound", "error"}}

InitSchema ==
    /\ InitOneTable
    /\ files \in [quality : {MissingFile}, contracts : FileStates(ContractDocs), sla : {MissingFile}]
    /\ wh \in OneTable(SchemaTables)

SpecSchema == InitSchema /\ [][Next]_vars

\* data constraints: rule documents and answers to the aggregate query
PatternSections ==
    {[r \in {"uuid"} |-> "re_global"], [r \in {"uuid"} |-> "re_table"],
     [r \in {"email"} |-> "re_email"]}

TimestampSections ==
    {EmptyDict, [r \in {"no_future"} |-> "true"], [r \in {"ordered"} |-> "true"]}

RuleSets ==
    {EmptyDict}
    \cup {[k \in {"patterns"} |-> p] : p \in PatternSections}
    \cup {[k \in {"timestamps"} |-> t] : t \in TimestampSections}
    \cup {[k \in {"patterns", "timestamps"} |-> IF k = "patterns" THEN p ELSE t] :
             p \in PatternSections, t \in TimestampSections}

QualityDocs ==
    {[none |-> FALSE, global_rules |-> g, table_rules |-> EmptyDict] : g \in RuleSets}
    \cup {[none |-> FALSE, global_rules |-> g, table_rules |-> [t \in {"users"} |-> r]] :
             g \in RuleSets, r \in RuleSets}

Counts == 0..MaxCount

AggAnswers ==
    {Failed, Rows(<<>>)}
    \cup {Rows(<<AggRow(MaxCount, nc, nu, fc, iu)>>) :
             nc \in Counts, nu \in Counts, fc \in Counts, iu \in Counts}

DataTables == {Table("ok", GoodSchema, agg, Failed) : agg \in AggAnswers}

InitData ==
    /\ InitOneTable
    /\ files \in [quality : FileStates(QualityDocs), contracts : {MissingFile}, sla : {MissingFile}]
    /\ wh \in OneTable(DataTables)

SpecData == InitData /\ [][Next]_vars

\* freshness: SLA documents and answers to the freshness query
MaxStalenessValues == {Duration(24, "h"), Duration(2, "d"), BadDuration}
LateThresholdValues == {Duration(12, "h"), Duration(600, "m"), Duration(18, "")}

SlaEntries ==
    {EmptyDict}
    \cup {[k \in {"max_staleness"} |-> m] : m \in MaxStalenessValues}
    \cup {[k \in {"late_arrival_threshold"} |-> l] : l \in LateThresholdValues}
    \cup {[k \in {"max_staleness", "late_arrival_threshold"} |->
              IF k = "max_staleness" THEN m ELSE l] :
             m \in MaxStalenessValues, l \in LateThresholdValues}

\* a category of freshness_slas: it lists no table, or "users"
SlaCategoryValues == {EmptyDict} \cup {[t \in {"users"} |-> e] : e \in SlaEntries}

SlaDocs ==
    {[none |-> FALSE, freshness_slas |-> f] : f \in Dicts(Range(SlaCategories), SlaCategoryValues)}

\* how many hours before Now the newest rows were written
StaleHours == {10, 12, 13, 24, 30, 49}

Timestamps == {None} \cup {HoursAgo(h) : h \in StaleHours}

FreshAnswers ==
    {Failed, Rows(<<>>), Rows(<<FreshRow(None, None, 0)>>)}
    \cup {Rows(<<FreshRow(c, u, 1)>>) : c \in Timestamps, u \in Timestamps}

FreshTables == {Table("ok", GoodSchema, Failed, fresh) : fresh \in FreshAnswers}

InitFresh ==
    /\ InitOneTable
    /\ files \in [quality : {MissingFile}, contracts : {MissingFile}, sla : FileStates(SlaDocs)]
    /\ wh \in OneTable(FreshTables)

SpecFresh == InitFresh /\ [][Next]_vars

\* one table, the three stages together: every warning path and every error
\* path of each stage
MismatchedSchema == [f \in {"id"} |-> "INTEGER"]

StageTables ==
    {Table(lookup, schema, agg, fresh) :
        lookup \in {"ok", "notfound", "error"},
        schema \in {GoodSchema, MismatchedSchema},
        agg \in {Failed, Rows(<<>>), Rows(<<AggRow(1, 0, 0, 0, 0)>>),
                 Rows(<<AggRow(1, 1, 0, 0, 1)>>)},
        fresh \in {Failed, Rows(<<>>), Rows(<<FreshRow(None, None, 1)>>)}
                  \cup {Rows(<<FreshRow(HoursAgo(h), HoursAgo(h), 1)>>) : h \in {10, 13, 30}}}

InitStages ==
    /\ InitOneTable
    /\ files \in [quality : RunFileStates(SampleQualityRules),
                  contracts : RunFileStates(SampleContracts),
                  sla : RunFileStates(SampleSlaConfig)]
    /\ wh \in OneTable(StageTables)

SpecStages == InitStages /\ [][Next]_vars

\* one table, the three stages together, with an interrupt at any stage
SpecInterrupt == InitStages /\ [][NextInterrupted]_vars

\* two runs of one runner against an unchanged warehouse and configuration
InitTwice ==
    /\ InitProcess
    /\ listing = [fail |-> FALSE, tables |-> <<"users">>]
    /\ table_pattern \in {"users", "nonexistent_table"}
    /\ fail_on \in {"warn", "error"}
    /\ files \in [quality : RunFileStates(SampleQualityRules),
                  contracts : RunFileStates(SampleContracts),
                  sla : RunFileStates(SampleSlaConfig)]
    /\ wh \in OneTable(RunTables)

SpecTwice == InitTwice /\ [][NextTwice]_vars

----------------------------------------------------------------------------
(* Claims about whole runs, checked under Spec *)

Failed_results == {i \in DOMAIN results : ~results[i].passed}
Warned_results == {i \in DOMAIN results : results[i].warnings # <<>>}

\* C1: when run_validation returns after checking tables, the exit code is
\* HARD_FAILURE (1) if some accumulated result has passed = false, whatever
\* fail_on is; otherwise SOFT_FAILURE (2) if fail_on = "warn" and some result
\* has a warning; otherwise SUCCESS (0), so warnings alone with
\* fail_on = "error" give 0.
C1_ExitCodePolicy ==
    (pc = "done" /\ tables # <<>>) =>
        /\ Failed_results # {} => exit_code = 1
        /\ (Failed_results = {} /\ fail_on = "warn" /\ Warned_results # {}) => exit_code = 2
        /\ (Failed_results = {} /\ fail_on = "warn" /\ Warned_results = {}) => exit_code = 0
        /\ (Failed_results = {} /\ fail_on = "error") => exit_code = 0

\* C1 witness: a finished run with warnings, no failed result and fail_on = "error"
C1_Witness ==
    /\ pc = "done"
    /\ tables # <<>>
    /\ fail_on = "error"
    /\ Failed_results = {}
    /\ Warned_results # {}
    /\ exit_code = 0

\* the pattern resolves to no table: the listing fails or no listed id matches
NoTableResolved ==
    \/ listing.fail
    \/ \A i \in DOMAIN listing.tables : ~PatternMatches(table_pattern, listing.tables[i])

\* C2: if the table pattern resolves to no table, run_validation returns
\* HARD_FAILURE for every fail_on, no stage runs (the only call sent to the
\* warehouse is the listing) and no Validation Result is appended.
C2_NoTablesHardFailure ==
    (pc \notin {"new", "ready"} /\ NoTableResolved) =>
        /\ pc = "done"
        /\ exit_code = 1
        /\ results = <<>>
        /\ \A i \in DOMAIN calls : calls[i].op = "list_tables"

\* C2 witness: a listing that succeeds with tables none of which matches, run
\* with fail_on = "warn"
C2_Witness ==
    /\ pc = "done"
    /\ ~listing.fail
    /\ listing.tables # <<>>
    /\ NoTableResolved
    /\ fail_on = "warn"
    /\ exit_code = 1

StageOrder == <<"schema_compliance", "data_constraints", "freshness_sla">>

\* the listed tables that match the pattern, in listing order
MatchedTables == SelectSeq(listing.tables, LAMBDA t : PatternMatches(table_pattern, t))

\* the k-th result is the one of stage ((k-1) mod 3)+1 of table ((k-1) div 3)+1
ResultInPlace(k) ==
    /\ results[k].name = tables[((k - 1) \div 3) + 1]
    /\ results[k].category = StageOrder[((k - 1) % 3) + 1]

\* the results still to be appended by the run
StepsLeft ==
    IF pc = "done" THEN 0
    ELSE IF pc = "new" THEN 3 * Len(listing.tables) + 3
    ELSE IF pc = "ready" THEN 3 * Len(listing.tables) + 2
    ELSE 3 * Len(tables) - Len(results) + 1

\* C3: for every non-empty list of matched tables and every combination of
\* failing warehouse calls and configuration gaps, run_validation terminates
\* (every step brings the run closer to its end and the run is never stuck
\* before it) and has then appended, for each matched table in listing order,
\* exactly three results in the order schema_compliance, data_constraints,
\* freshness_sla; a failure at one table does not keep the stages of the
\* later tables from running.
C3_ThreeStagesPerTable ==
    /\ []((pc \notin {"new", "ready"} /\ ~NoTableResolved) => tables = MatchedTables)
    /\ [](\A k \in DOMAIN results : ResultInPlace(k))
    /\ []((pc = "done" /\ ~NoTableResolved) => Len(results) = 3 * Len(tables))
    /\ [](pc # "done" => ENABLED Next)
    /\ [][StepsLeft' < StepsLeft]_vars

\* C3 witness: two tables checked, the first one not found in the warehouse
\* and with failing queries, the second one with all its three results
C3_Witness ==
    /\ pc = "done"
    /\ Len(tables) = 2
    /\ wh[tables[1]].lookup = "notfound"
    /\ wh[tables[1]].agg.fail
    /\ wh[tables[1]].fresh.fail
    /\ ~results[1].passed
    /\ Len(results) = 6
    /\ results[4].name = tables[2]
    /\ results[6].category = "freshness_sla"

----------------------------------------------------------------------------
(* Claims about failing calls and configuration gaps, checked under Spec *)

\* the result reports a warning and nothing else
WarningOnly(r) == r.passed /\ r.errors = <<>> /\ r.warnings # <<>>

\* C4 (as claimed): NotFound on the table lookup gives a hard error, and every
\* other exception raised by a warehouse call (schema fetch, aggregate query,
\* freshness query) gives only a warning: passed stays true, no error.
C4_OtherExceptionsOnlyWarn ==
    \A k \in DOMAIN results :
        LET r == results[k]
            t == wh[r.name]
        IN  /\ (r.category = "schema_compliance" /\ t.lookup = "notfound") => ~r.passed
            /\ (r.category = "schema_compliance" /\ t.lookup = "error") => WarningOnly(r)
            /\ (r.category = "data_constraints" /\ aggregate_query_sent(r.name) /\ t.agg.fail)
                   => WarningOnly(r)
            /\ (r.category = "freshness_sla" /\ freshness_query_sent(r.name) /\ t.fresh.fail)
                   => WarningOnly(r)

\* C5 (as claimed): when a document is missing, unparsable or empty, every
\* stage reading it, for a table that exists in the warehouse, returns a
\* result with passed = true that reports the gap as a warning.
C5_ConfigurationGapOnlyWarns ==
    \A k \in DOMAIN results :
        LET r == results[k]
        IN  wh[r.name].lookup = "ok" =>
            /\ (r.category = "schema_compliance" /\ files.contracts.state # "ok")
                   => WarningOnly(r)
            /\ (r.category = "data_constraints" /\ files.quality.state # "ok")
                   => WarningOnly(r)
            /\ (r.category = "freshness_sla" /\ files.sla.state # "ok")
                   => WarningOnly(r)

----------------------------------------------------------------------------
(* Claims about schema compliance, checked under SpecSchema *)

\* a declared type names the actual type, the declared name in either case
SameType(declared, actual) ==
    \/ declared = actual
    \/ (declared = "string" /\ actual = "STRING")
    \/ (declared = "integer" /\ actual = "INTEGER")

ErrorsWith(r, text) == {j \in DOMAIN r.errors : r.errors[j].text = text}

\* C6: for a table that exists and has a contract, the schema_compliance
\* result has one error for every entry of required_fields absent from the
\* actual schema and one error for every contract field that is present with
\* a type other than its declared one (a field without declared type has
\* none to differ from), and no other error; passed holds iff there is no
\* such field; details record the three counts.
C6_SchemaErrors ==
    \A k \in DOMAIN results :
        LET r == results[k]
        IN  (/\ r.category = "schema_compliance"
             /\ wh[r.name].lookup = "ok"
             /\ ~table_contracts.none
             /\ r.name \in DOMAIN table_contracts.tables) =>
            LET c == table_contracts.tables[r.name]
                actual == wh[r.name].schema
                absent == {i \in DOMAIN c.required_fields :
                              c.required_fields[i] \notin DOMAIN actual}
                mismatched == {f \in (DOMAIN c.fields) \cap (DOMAIN actual) :
                                  c.fields[f] # "" /\ ~SameType(c.fields[f], actual[f])}
                missing_errors == ErrorsWith(r, "Required field missing from schema")
                type_errors == ErrorsWith(r, "Field type mismatch")
            IN  /\ Cardinality(missing_errors) = Cardinality(absent)
                /\ \A i \in absent : \E j \in missing_errors :
                       r.errors[j].subject = c.required_fields[i]
                /\ Cardinality(type_errors) = Cardinality(mismatched)
                /\ \A f \in mismatched : \E j \in type_errors : r.errors[j].subject = f
                /\ Len(r.errors) = Cardinality(absent) + Cardinality(mismatched)
                /\ r.passed <=> (absent = {} /\ mismatched = {})
                /\ r.details["table_schema"] =
                       [field_count |-> Cardinality(DOMAIN actual),
                        required_fields_checked |-> Len(c.required_fields),
                        contract_fields_checked |-> Cardinality(DOMAIN c.fields)]

\* C6 witness: a result with an error for a missing required field and an
\* error for a mismatched type, against a contract that also declares a type
\* in lower case which the schema meets
C6_Witness ==
    \E k \in DOMAIN results :
        /\ results[k].category = "schema_compliance"
        /\ ErrorsWith(results[k], "Required field missing from schema") # {}
        /\ ErrorsWith(results[k], "Field type mismatch") # {}
        /\ ~results[k].passed
        /\ "table_schema" \in DOMAIN results[k].details
        /\ results[k].details["table_schema"].contract_fields_checked = 2

----------------------------------------------------------------------------
(* Claims about data constraints, checked under SpecData *)

TimestampCounts ==
    {"null_created_at", "null_updated_at", "future_created_at", "invalid_updated_at"}

\* C7 (as claimed): when timestamp rules are in effect and the aggregate query
\* succeeds, the result has one error for each non-zero count among null
\* created_at, null updated_at, future created_at and updated_at < created_at,
\* and passed holds iff all four are zero.
C7_FourCountsAreErrors ==
    \A k \in DOMAIN results :
        LET r == results[k]
            answer == wh[r.name].agg
        IN  (/\ r.category = "data_constraints"
             /\ aggregate_query_sent(r.name)
             /\ ~answer.fail
             /\ answer.rows # <<>>) =>
            LET nonzero == {c \in TimestampCounts : answer.rows[1][c] > 0}
            IN  /\ Len(r.errors) = Cardinality(nonzero)
                /\ r.passed <=> nonzero = {}

----------------------------------------------------------------------------
(* Claims about freshness, checked under SpecFresh *)

HasFreshnessCheck(r) ==
    r.category = "freshness_sla" /\ "freshness_check" \in DOMAIN r.details

WarningsWith(r, text) == {j \in DOMAIN r.warnings : r.warnings[j].text = text}

\* C8 (as claimed): the timestamp compared with now is the more recent of
\* MAX(created_at) and MAX(updated_at); an absent maximum counts as older
\* than any timestamp.
C8_StalenessFromLaterMaximum ==
    \A k \in DOMAIN results :
        LET r == results[k]
        IN  HasFreshnessCheck(r) =>
            LET row == wh[r.name].fresh.rows[1]
                later == IF row.latest_created_at > row.latest_updated_at
                         THEN row.latest_created_at
                         ELSE row.latest_updated_at
            IN  /\ r.details["freshness_check"].latest_timestamp = later
                /\ r.details["freshness_check"].staleness_hours = now - later

\* C9: for a non-empty table with staleness s, max_staleness m and
\* late_arrival_threshold t, the freshness result carries exactly one "stale"
\* warning and nothing else if s > m, exactly one "approaching staleness"
\* warning and nothing else if s <= m and s > t, and no warning if s <= m and
\* s <= t; so never both.  With m = 24h and t = 12h: s = 30h gives "stale"
\* and s = 10h gives no warning.
C9_StalenessWarnings ==
    \A k \in DOMAIN results :
        LET r == results[k]
        IN  HasFreshnessCheck(r) =>
            LET s == r.details["freshness_check"].staleness_hours
                m == _parse_duration(max_staleness(r.name))
                t == _parse_duration(late_threshold(r.name))
                entry == find_sla(r.name).entry
                stale == WarningsWith(r, "Data is stale")
                approaching == WarningsWith(r, "Data approaching staleness")
            IN  /\ s > m => (Cardinality(stale) = 1 /\ Len(r.warnings) = 1)
                /\ (s <= m /\ s > t) => (Cardinality(approaching) = 1 /\ Len(r.warnings) = 1)
                /\ (s <= m /\ s <= t) => r.warnings = <<>>
                /\ ~(stale # {} /\ approaching # {})
                /\ (/\ Get(entry, "max_staleness", BadDuration) = Duration(24, "h")
                    /\ Get(entry, "late_arrival_threshold", BadDuration) = Duration(12, "h")) =>
                       /\ s = 30 * 60 => Cardinality(stale) = 1
                       /\ s = 10 * 60 => r.warnings = <<>>

\* C9 witness: staleness of 13h under max_staleness 24h and threshold 12h,
\* reported as approaching staleness
C9_Witness ==
    \E k \in DOMAIN results :
        /\ HasFreshnessCheck(results[k])
        /\ results[k].details["freshness_check"].staleness_hours = 13 * 60
        /\ results[k].details["freshness_check"].max_allowed_hours = 24 * 60
        /\ Get(find_sla(results[k].name).entry, "late_arrival_threshold", BadDuration)
               = Duration(12, "h")
        /\ Cardinality(WarningsWith(results[k], "Data approaching staleness")) = 1

\* the category lists the table
Lists(category, table_name) ==
    /\ category \in DOMAIN sla_config.freshness_slas
    /\ table_name \in DOMAIN sla_config.freshness_slas[category]

\* what the result shows of the SLA entry it was computed from
ComputedFrom(r, entry) ==
    HasFreshnessCheck(r) =>
        LET s == r.details["freshness_check"].staleness_hours
            m == _parse_duration(Get(entry, "max_staleness", Duration(24, "h")))
            t == _parse_duration(Get(entry, "late_arrival_threshold", Duration(12, "h")))
        IN  /\ r.details["freshness_check"].max_allowed_hours = m
            /\ WarningsWith(r, "Data is stale") # {} <=> s > m
            /\ WarningsWith(r, "Data approaching staleness") # {} <=> (s <= m /\ s > t)

----------------------------------------------------------------------------
(* Claims about freshness results, runs in succession and table lists *)

FreshnessResults == {k \in DOMAIN results : results[k].category = "freshness_sla"}

\* C11: every result of category freshness_sla has passed = true and an empty
\* error list, on every path of validate_freshness_sla: missing SLA entry,
\* empty table, missing timestamps, stale data, failing query, unparsable
\* duration string.
C11_FreshnessNeverFails ==
    \A k \in FreshnessResults : results[k].passed /\ results[k].errors = <<>>

\* C11 witness: max_staleness could not be parsed, the outer handler turned the
\* exception into the one warning of a passed result
C11_Witness ==
    \E k \in FreshnessResults :
        /\ ~sla_config.none
        /\ find_sla(results[k].name).found
        /\ Get(find_sla(results[k].name).entry, "max_staleness", Duration(24, "h")) = BadDuration
        /\ results[k].warnings = <<Msg("Freshness validation failed", results[k].name, 0)>>
        /\ results[k].passed

\* C12: two calls of run_validation in succession, with the same pattern and
\* fail_on against an unchanged warehouse and configuration, return the same
\* exit code and the same collection of results: nothing of the first call is
\* carried into the second.
C12_SecondRunEqualsFirst ==
    Len(returned) = 2 => returned[2] = returned[1]

\* C13: a comma-separated list of table names resolves to exactly the listed
\* names the dataset lists, and each of them gets its three stage checks.
C13_CommaListResolves ==
    (pc = "done" /\ table_pattern = "users,models" /\ ~listing.fail) =>
        /\ Range(tables) = {"users", "models"} \cap Range(listing.tables)
        /\ \A t \in {"users", "models"} \cap Range(listing.tables) :
               \A c \in Range(StageOrder) :
                   \E k \in DOMAIN results : results[k].name = t /\ results[k].category = c

----------------------------------------------------------------------------
(* The Pydantic contracts (src/NMD/S4_pydantic): the constructor of the model             *)
(*                                                                         *)
(* A submitted field is absent, None or a value; integers, dates and       *)
(* datetimes are whole numbers, a string that a pattern reads is the       *)
(* sequence of its characters.  Field validation collects its errors; the  *)
(* mode="after" model validators run only when there is none, in the       *)
(* order of their definition, each on what the one before it returned.     *)
(* ValueError becomes a ValidationError; any other exception leaves        *)
(* the constructor of the model as it is.                                                 *)

Absent == [kind |-> "absent", v |-> 0]
PyNone == [kind |-> "None", v |-> 0]
PyInt(n) == [kind |-> "int", v |-> n]

AbsentStr == [kind |-> "absent", s |-> <<>>]
NoneStr == [kind |-> "None", s |-> <<>>]
Str(s) == [kind |-> "str", s |-> s]

\* a field declared with a default: the default stands in for an absent value
WithDefault(f, default) == IF f.kind = "absent" THEN default ELSE f

\* x or 0
OrZero(f) == IF f.kind = "None" THEN 0 ELSE f.v

\* one line of a ValidationError
ErrorDetail(loc, type, msg) == [loc |-> loc, type |-> type, msg |-> msg]

\* how the constructor of the model ends: with the model, with a ValidationError, or with
\* another exception
Accepted(value) == [kind |-> "value", value |-> value, errors |-> <<>>]
Rejected(errors) == [kind |-> "ValidationError", value |-> EmptyDict, errors |-> errors]
Raised(exception) == [kind |-> exception, value |-> EmptyDict, errors |-> <<>>]

\* how one validator ends, and the fields it assigned to on its way there
Returns(model) == [kind |-> "return", model |-> model, msg |-> "", overwritten |-> {}]
ValueError(msg) == [kind |-> "ValueError", model |-> EmptyDict, msg |-> msg, overwritten |-> {}]
NameError ==
    [kind |-> "NameError", model |-> EmptyDict, msg |-> "name 'v' is not defined",
     overwritten |-> {}]
TypeError(msg) == [kind |-> "TypeError", model |-> EmptyDict, msg |-> msg, overwritten |-> {}]

\* the validator assigned to `fields` of the model before it ended
Overwriting(result, fields) == [result EXCEPT !.overwritten = fields]

\* conint(ge=1), Optional: what field validation reports for the field
PositiveErrors(loc, f) ==
    IF f.kind = "int" /\ f.v < 1
    THEN <<ErrorDetail(loc, "greater_than_equal", "Input should be greater than or equal to 1")>>
    ELSE <<>>

\* conint(ge=0), Optional: what field validation reports for the field
NonNegativeErrors(loc, f) ==
    IF f.kind = "int" /\ f.v < 0
    THEN <<ErrorDetail(loc, "greater_than_equal", "Input should be greater than or equal to 0")>>
    ELSE <<>>

\* extra='forbid': one error per key that is not a declared field
ExtraForbidden(keys) ==
    IF keys = {} THEN <<>>
    ELSE <<ErrorDetail("extra", "extra_forbidden", "Extra inputs are not permitted")>>

----------------------------------------------------------------------------
(* diagnostic_sessions_model.py: DiagnosticCode *)

\* \d of the pattern and str.isdigit, on the decimal digits
IsDigit_any(c) == TRUE

IsDigit(c) == c \in {"0", "1", "2", "3", "4", "5", "6", "7", "8", "9"}

\* DTCCode = constr(pattern=r'^[PBCU]\d{4}$')
DTCCode(s) ==
    /\ Len(s) = 5
    /\ s[1] \in {"P", "B", "C", "U"}
    /\ \A i \in 2..5 : IsDigit(s[i])

\* str.isdigit: at least one character, all of them digits
isdigit(s) == s # <<>> /\ \A i \in DOMAIN s : IsDigit(s[i])

\* @field_validator('code')
validate_dtc_format(v) ==
    IF Len(v) # 5 THEN ValueError("DTC code must be exactly 5 characters")
    ELSE IF Head(v) \notin {"P", "B", "C", "U"}
    THEN ValueError("DTC code must start with P, B, C, or U")
    ELSE IF ~isdigit(Tail(v))
    THEN ValueError("DTC code must have 4 digits after the category letter")
    ELSE Returns(v)

\* the constructor of DiagnosticCode: code is required, the other fields keep their
\* defaults; the class has no model_config, so unknown keys are ignored
DiagnosticCode(data) ==
    IF data.code.kind = "absent"
    THEN Rejected(<<ErrorDetail("code", "missing", "Field required")>>)
    ELSE IF data.code.kind = "None"
    THEN Rejected(<<ErrorDetail("code", "string_type", "Input should be a valid string")>>)
    ELSE IF ~DTCCode(data.code.s)
    THEN Rejected(<<ErrorDetail("code", "string_pattern_mismatch",
                                "String should match pattern")>>)
    ELSE IF validate_dtc_format(data.code.s).kind = "ValueError"
    THEN Rejected(<<ErrorDetail("code", "value_error", validate_dtc_format(data.code.s).msg)>>)
    ELSE Accepted([code |-> Str(validate_dtc_format(data.code.s).model)])

MaxCodeLen == 6    \* longest submitted code

CodeChars == {"P", "X", "p", "0", "1", "3"}

DiagnosticCodeCandidates ==
    {[model |-> "DiagnosticCode", data |-> [code |-> c, extra |-> {}]] :
        c \in {AbsentStr, NoneStr} \cup {Str(s) : s \in SeqUpTo(CodeChars, MaxCodeLen)}}

----------------------------------------------------------------------------
(* parts_inventory_model.py: InventoryInfo *)

InventoryFields ==
    {"quantity_on_hand", "quantity_allocated", "quantity_available",
     "reorder_point", "reorder_quantity", "max_stock_level"}

InventoryFieldOrder ==
    <<"quantity_on_hand", "quantity_allocated", "quantity_available",
      "reorder_point", "reorder_quantity", "max_stock_level">>

\* Field(0) for the three quantities, None for the reorder fields
InventoryDefault(f) ==
    IF f \in {"quantity_on_hand", "quantity_allocated", "quantity_available"}
    THEN PyInt(0) ELSE PyNone

\* the model after field validation: defaults stand in for absent fields and
\* keys that are not fields are dropped (the class has no model_config)
InventoryModel(data) ==
    [f \in InventoryFields |-> WithDefault(data[f], InventoryDefault(f))]

RECURSIVE InventoryFieldErrors(_, _)
\* conint(ge=0) of each field, in the order of the fields
InventoryFieldErrors(data, fields) ==
    IF fields = <<>> THEN <<>>
    ELSE NonNegativeErrors(Head(fields), data[Head(fields)])
             \o InventoryFieldErrors(data, Tail(fields))

\* x and ...: neither None nor 0
Truthy(f) == f.kind = "int" /\ f.v # 0

\* mutant: quantity_available is left as it was submitted
validate_inventory_consistency_as_submitted(model) ==
    IF OrZero(model.quantity_allocated) > OrZero(model.quantity_on_hand)
    THEN ValueError("Allocated quantity cannot exceed quantity on hand")
    ELSE Returns(model)

\* @model_validator(mode="after") of InventoryInfo
validate_inventory_consistency(model) ==
    LET on_hand == OrZero(model.quantity_on_hand)
        allocated == OrZero(model.quantity_allocated)
        available == OrZero(model.quantity_available)
        corrected == IF available # on_hand - allocated
                     THEN [model EXCEPT !.quantity_available = PyInt(on_hand - allocated)]
                     ELSE model
        assigned == IF available # on_hand - allocated THEN {"quantity_available"} ELSE {}
        reorder_point == model.reorder_point
        reorder_quantity == model.reorder_quantity
        max_stock == model.max_stock_level
    IN  Overwriting(
            IF allocated > on_hand
            THEN ValueError("Allocated quantity cannot exceed quantity on hand")
            ELSE IF Truthy(reorder_point) /\ Truthy(max_stock)
                    /\ reorder_point.v >= max_stock.v
            THEN ValueError("Reorder point must be less than max stock level")
            ELSE IF Truthy(reorder_quantity) /\ Truthy(max_stock)
                    /\ reorder_quantity.v > max_stock.v
            THEN ValueError("Reorder quantity cannot exceed max stock level")
            ELSE Returns(corrected),
            assigned)

----------------------------------------------------------------------------
(* models_model.py: TrainingInfo *)

\* datetimes are counted in ticks, TicksPerSecond of them in a second, so that
\* an interval need not be a whole number of seconds
TicksPerSecond == 2

\* a datetime, naive or timezone-aware, as the number of its tick on the UTC axis
AbsentTime == [kind |-> "absent", v |-> 0, aware |-> FALSE]
NoneTime == [kind |-> "None", v |-> 0, aware |-> FALSE]
DateTime(t, aware) == [kind |-> "datetime", v |-> t, aware |-> aware]

\* int(timedelta.total_seconds())
WholeSeconds(ticks) == ticks \div TicksPerSecond

\* the model after field validation: every field is Optional with default None
TrainingInfoModel(data) ==
    [training_rows |-> WithDefault(data.training_rows, PyNone),
     training_duration_seconds |-> WithDefault(data.training_duration_seconds, PyNone),
     training_start |-> WithDefault(data.training_start, NoneTime),
     training_end |-> WithDefault(data.training_end, NoneTime)]

\* the conint(ge=1) fields that are followed; validation_rows, test_rows and
\* feature_count are declared as training_rows is
TrainingInfoFieldErrors(data) ==
    PositiveErrors("training_rows", data.training_rows)
        \o PositiveErrors("training_duration_seconds", data.training_duration_seconds)

\* @model_validator(mode="after") of TrainingInfo; comparing a naive with an
\* aware datetime raises TypeError
validate_training_times(model) ==
    LET training_start == model.training_start
        training_end == model.training_end
        training_duration == model.training_duration_seconds
    IN  IF training_start.kind = "datetime" /\ training_end.kind = "datetime"
        THEN IF training_start.aware # training_end.aware
             THEN TypeError("can't compare offset-naive and offset-aware datetimes")
             ELSE IF training_end.v <= training_start.v
             THEN ValueError("Training end must be after training start")
             ELSE IF training_duration.kind = "None"
             THEN Overwriting(
                      Returns([model EXCEPT !.training_duration_seconds =
                                  PyInt(WholeSeconds(training_end.v - training_start.v))]),
                      {"training_duration_seconds"})
             ELSE Returns(model)
        ELSE Returns(model)

\* @model_validator(mode="after"): its only branch is `pass`
validate_data_split_consistency(model) == Returns(model)

----------------------------------------------------------------------------
(* feature_store_model.py: StatisticalProfile *)

PercentileFields == {"std_deviation", "percentile_25", "percentile_75", "percentile_95"}

\* the model after field validation: every field is Optional[float] = None
StatisticalProfileModel(data) == [f \in PercentileFields |-> WithDefault(data[f], PyNone)]

\* @model_validator(mode="after"): its body reads `v`, a name that neither
\* the function nor the module defines
validate_std_deviation_non_negative(model) == NameError

\* @model_validator(mode="after")
validate_percentile_order(model) ==
    LET p25 == model.percentile_25
        p75 == model.percentile_75
        p95 == model.percentile_95
    IN  IF p25.kind # "None" /\ p75.kind # "None" /\ p25.v > p75.v
        THEN ValueError("25th percentile cannot exceed 75th percentile")
        ELSE IF p75.kind # "None" /\ p95.kind # "None" /\ p75.v > p95.v
        THEN ValueError("75th percentile cannot exceed 95th percentile")
        ELSE Returns(model)

----------------------------------------------------------------------------
(* maintenance_predictions_model.py: RiskAssessment; users_model.py: Profile *)

AbsentEnum == [kind |-> "absent", e |-> ""]
Enum(e) == [kind |-> "str", e |-> e]

\* thresholds of validate_risk_consistency, in tenths
RiskThresholds(risk_level) ==
    CASE risk_level = "low" -> <<0, 3>>
      [] risk_level = "medium" -> <<2, 7>>
      [] risk_level = "high" -> <<6, 9>>
      [] risk_level = "critical" -> <<8, 10>>
      [] OTHER -> <<0, 10>>

\* the model after field validation; scores are in tenths
RiskAssessmentModel(data) ==
    [overall_risk_score |-> WithDefault(data.overall_risk_score, PyNone),
     risk_level |-> WithDefault(data.risk_level, Enum("medium"))]

\* confloat(ge=0.0, le=1.0) of overall_risk_score
RiskAssessmentFieldErrors(data) ==
    IF data.overall_risk_score.kind = "int"
       /\ (data.overall_risk_score.v < 0 \/ data.overall_risk_score.v > 10)
    THEN <<ErrorDetail("overall_risk_score", "out_of_range", "Input should be in [0, 1]")>>
    ELSE <<>>

\* @model_validator(mode="after") of RiskAssessment
validate_risk_consistency(model) ==
    LET risk_score == model.overall_risk_score
        risk_level == model.risk_level
    IN  IF risk_score.kind # "None" /\ risk_level.kind = "str"
           /\ ~(RiskThresholds(risk_level.e)[1] <= risk_score.v
                /\ risk_score.v <= RiskThresholds(risk_level.e)[2])
        THEN ValueError("Risk score inconsistent with risk level")
        ELSE Returns(model)

\* the model after field validation; a phone that matches PhoneNumber is
\* given by the number of its characters other than ' ', '-', '(' and ')'
ProfileModel(data) == [phone |-> WithDefault(data.phone, PyNone)]

\* @model_validator(mode="after") of Profile
validate_phone_format(model) ==
    IF model.phone.kind # "None" /\ model.phone.v < 10
    THEN ValueError("Phone number must have at least 10 digits")
    ELSE Returns(model)

----------------------------------------------------------------------------
(* The entities: users_model.py, equipment_registry_model.py,              *)
(* diagnostic_sessions_model.py, parts_inventory_model.py,                 *)
(* maintenance_predictions_model.py, models_model.py                       *)
(*                                                                         *)
(* Of a submitted record the model keeps the fields that the cross-field   *)
(* validators read, the keys that are not declared (`extra`) and the       *)
(* declared fields whose value breaks its own type or constraint           *)
(* (`invalid`); every other field carries a value that its declaration     *)
(* accepts.                                                                *)

\* created_at, updated_at: datetime = Field(default_factory=datetime.utcnow)
Timestamp(f) == WithDefault(f, PyInt(now))

\* the errors of the declared fields that do not validate
InvalidErrors(invalid) ==
    IF invalid = {} THEN <<>>
    ELSE <<ErrorDetail("field", "invalid", "Input does not satisfy the declared type")>>

\* Users after field validation
UsersModel(data, profile) ==
    [email_verified |-> WithDefault(data.email_verified, PyInt(0)),
     email_verified_at |-> WithDefault(data.email_verified_at, PyNone),
     last_login_at |-> WithDefault(data.last_login_at, PyNone),
     is_active |-> WithDefault(data.is_active, PyInt(1)),
     deleted_at |-> WithDefault(data.deleted_at, PyNone),
     profile |-> profile,
     created_at |-> Timestamp(data.created_at),
     updated_at |-> Timestamp(data.updated_at)]

\* @model_validator(mode="after") of Users, the first
validate_email_verification_consistency(model) ==
    LET email_verified == OrZero(model.email_verified)
        email_verified_at == model.email_verified_at
        created_at == model.created_at
    IN  IF email_verified # 0 /\ email_verified_at.kind = "None"
        THEN ValueError("email_verified_at must be set when email_verified is true")
        ELSE IF email_verified_at.kind # "None" /\ email_verified_at.v < created_at.v
        THEN ValueError("email_verified_at cannot be before created_at")
        ELSE Returns(model)

\* @model_validator(mode="after") of Users, the second
validate_login_tracking(model) ==
    IF model.last_login_at.kind # "None" /\ model.last_login_at.v < model.created_at.v
    THEN ValueError("last_login_at cannot be before created_at")
    ELSE Returns(model)

\* @model_validator(mode="after") of Users, the third
validate_deleted_user_inactive(model) ==
    IF model.deleted_at.kind # "None" /\ model.is_active = PyInt(1)
    THEN ValueError("Deleted users cannot be active")
    ELSE Returns(model)

\* @model_validator(mode="after") of Users, the fourth: user_type is a
\* Literal of the five valid types, so the test never holds
validate_user_type_permissions(model) == Returns(model)

\* PartsInventory and Models after field validation
TimestampedModel(data, nested) ==
    [nested |-> nested,
     created_at |-> Timestamp(data.created_at),
     updated_at |-> Timestamp(data.updated_at)]

\* @model_validator(mode="after") of PartsInventory, the first: its body
\* reads `v`, a name that neither the function nor the module defines
validate_part_number_format(model) == NameError

\* @model_validator(mode="after") of Models, the first: it reads `v` as well
validate_model_name_format(model) == NameError

\* MaintenancePredictions after field validation
MaintenancePredictionsModel(data, risk_assessment) ==
    [prediction_date |-> data.prediction_date,
     predicted_failure_date |-> WithDefault(data.predicted_failure_date, PyNone),
     predicted_maintenance_date |-> WithDefault(data.predicted_maintenance_date, PyNone),
     scheduled_maintenance_date |-> WithDefault(data.scheduled_maintenance_date, PyNone),
     status |-> WithDefault(data.status, Enum("active")),
     acknowledged_at |-> WithDefault(data.acknowledged_at, PyNone),
     completed_at |-> WithDefault(data.completed_at, PyNone),
     risk_assessment |-> risk_assessment,
     created_at |-> Timestamp(data.created_at),
     updated_at |-> Timestamp(data.updated_at)]

\* @model_validator(mode="after") of MaintenancePredictions, the first
validate_prediction_dates(model) ==
    LET prediction_date == model.prediction_date
        predicted_failure == model.predicted_failure_date
        predicted_maintenance == model.predicted_maintenance_date
        scheduled_maintenance == model.scheduled_maintenance_date
    IN  IF predicted_failure.kind # "None" /\ predicted_failure.v <= prediction_date.v
        THEN ValueError("Predicted failure date must be after prediction date")
        ELSE IF predicted_maintenance.kind # "None" /\ predicted_failure.kind # "None"
                /\ predicted_maintenance.v >= predicted_failure.v
        THEN ValueError("Predicted maintenance date should be before predicted failure date")
        ELSE IF scheduled_maintenance.kind # "None"
                /\ scheduled_maintenance.v < prediction_date.v
        THEN ValueError("Scheduled maintenance date cannot be before prediction date")
        ELSE Returns(model)

\* @model_validator(mode="after") of MaintenancePredictions, the second
validate_status_transitions(model) ==
    LET status == model.status
    IN  IF status = Enum("acknowledged") /\ model.acknowledged_at.kind = "None"
        THEN ValueError("acknowledged_at required when status is acknowledged")
        ELSE IF status = Enum("scheduled") /\ model.scheduled_maintenance_date.kind = "None"
        THEN ValueError("scheduled_maintenance_date required when status is scheduled")
        ELSE IF status = Enum("completed") /\ model.completed_at.kind = "None"
        THEN ValueError("completed_at required when status is completed")
        ELSE Returns(model)

\* the third: the comparison with the thresholds ends in `pass`
validate_risk_financial_consistency(model) == Returns(model)

\* the fourth: a docstring and nothing else, so it returns None
NoneModel == [none |-> TRUE]
validate_expiration_reasonable(model) == Returns(NoneModel)

\* the fifth: its body reads `v`, a name that neither the function nor the
\* module defines
validate_symptoms_limit(model) == NameError

----------------------------------------------------------------------------
(* the constructor of the model: field validation, then the model validators in order *)

\* the mode="after" validators of a class that a record can reach, in the
\* order of their definition; PartsInventory, MaintenancePredictions and
\* Models define more, behind one that raises on every record
ValidatorsOf(class) ==
    CASE class = "InventoryInfo" -> <<"validate_inventory_consistency">>
      [] class = "StatisticalProfile" ->
            <<"validate_std_deviation_non_negative", "validate_percentile_order">>
      [] class = "RiskAssessment" -> <<"validate_risk_consistency">>
      [] class = "Profile" -> <<"validate_phone_format">>
      [] class = "Users" ->
            <<"validate_email_verification_consistency", "validate_login_tracking",
              "validate_deleted_user_inactive", "validate_user_type_permissions">>
      [] class = "PartsInventory" -> <<"validate_part_number_format">>
      [] class = "MaintenancePredictions" ->
            <<"validate_prediction_dates", "validate_status_transitions",
              "validate_risk_financial_consistency", "validate_expiration_reasonable",
              "validate_symptoms_limit">>
      [] class = "Models" -> <<"validate_model_name_format">>
      [] class = "TrainingInfo" ->
            <<"validate_training_times", "validate_data_split_consistency">>
      [] OTHER -> <<>>

CallValidator(name, model) ==
    CASE name = "validate_inventory_consistency" -> validate_inventory_consistency(model)
      [] name = "validate_std_deviation_non_negative" ->
            validate_std_deviation_non_negative(model)
      [] name = "validate_percentile_order" -> validate_percentile_order(model)
      [] name = "validate_risk_consistency" -> validate_risk_consistency(model)
      [] name = "validate_phone_format" -> validate_phone_format(model)
      [] name = "validate_email_verification_consistency" ->
            validate_email_verification_consistency(model)
      [] name = "validate_login_tracking" -> validate_login_tracking(model)
      [] name = "validate_deleted_user_inactive" -> validate_deleted_user_inactive(model)
      [] name = "validate_user_type_permissions" -> validate_user_type_permissions(model)
      [] name = "validate_part_number_format" -> validate_part_number_format(model)
      [] name = "validate_prediction_dates" -> validate_prediction_dates(model)
      [] name = "validate_status_transitions" -> validate_status_transitions(model)
      [] name = "validate_risk_financial_consistency" ->
            validate_risk_financial_consistency(model)
      [] name = "validate_expiration_reasonable" -> validate_expiration_reasonable(model)
      [] name = "validate_symptoms_limit" -> validate_symptoms_limit(model)
      [] name = "validate_model_name_format" -> validate_model_name_format(model)
      [] name = "validate_training_times" -> validate_training_times(model)
      [] name = "validate_data_split_consistency" -> validate_data_split_consistency(model)

RECURSIVE RunValidators(_, _)
\* each validator gets what the one before it returned; a ValueError is
\* reported as a ValidationError, another exception is not caught
RunValidators(names, model) ==
    IF names = <<>> THEN Accepted(model)
    ELSE LET r == CallValidator(Head(names), model)
         IN  IF r.kind = "return" THEN RunValidators(Tail(names), r.model)
             ELSE IF r.kind = "ValueError"
             THEN Rejected(<<ErrorDetail("", "value_error", r.msg)>>)
             ELSE Raised(r.kind)

InventoryInfo(data) ==
    IF InventoryFieldErrors(data, InventoryFieldOrder) # <<>>
    THEN Rejected(InventoryFieldErrors(data, InventoryFieldOrder))
    ELSE RunValidators(ValidatorsOf("InventoryInfo"), InventoryModel(data))

TrainingInfo(data) ==
    IF TrainingInfoFieldErrors(data) # <<>>
    THEN Rejected(TrainingInfoFieldErrors(data))
    ELSE RunValidators(ValidatorsOf("TrainingInfo"), TrainingInfoModel(data))

StatisticalProfile(data) ==
    RunValidators(ValidatorsOf("StatisticalProfile"), StatisticalProfileModel(data))

RiskAssessment(data) ==
    IF RiskAssessmentFieldErrors(data) # <<>>
    THEN Rejected(RiskAssessmentFieldErrors(data))
    ELSE RunValidators(ValidatorsOf("RiskAssessment"), RiskAssessmentModel(data))

Profile(data) == RunValidators(ValidatorsOf("Profile"), ProfileModel(data))

\* a field of type Optional[<nested model>] = None
NoNested == [kind |-> "absent"]
Nested(data) == [kind |-> "dict", data |-> data]

\* the errors of a nested model, under the name of the field that holds it
NestedErrors(loc, nested) ==
    IF nested.kind = "ValidationError"
    THEN [i \in DOMAIN nested.errors |->
             ErrorDetail(loc, nested.errors[i].type, nested.errors[i].msg)]
    ELSE <<>>

\* an entity: model_config has extra='forbid'; an exception that a nested
\* model raises passes through
Entity(class, data, loc, nested, model) ==
    IF nested.kind \notin {"value", "ValidationError"} THEN Raised(nested.kind)
    ELSE IF InvalidErrors(data.invalid) \o NestedErrors(loc, nested)
                \o ExtraForbidden(data.extra) # <<>>
    THEN Rejected(InvalidErrors(data.invalid) \o NestedErrors(loc, nested)
                      \o ExtraForbidden(data.extra))
    ELSE RunValidators(ValidatorsOf(class), model)

Users(data) ==
    LET profile == IF data.profile.kind = "absent" THEN Accepted(PyNone)
                   ELSE Profile(data.profile.data)
    IN  Entity("Users", data, "profile", profile, UsersModel(data, profile.value))

EquipmentRegistry(data) ==
    Entity("EquipmentRegistry", data, "", Accepted(PyNone), TimestampedModel(data, PyNone))

DiagnosticSessions(data) ==
    Entity("DiagnosticSessions", data, "", Accepted(PyNone), TimestampedModel(data, PyNone))

PartsInventory(data) ==
    LET inventory == IF data.inventory.kind = "absent" THEN Accepted(PyNone)
                     ELSE InventoryInfo(data.inventory.data)
    IN  Entity("PartsInventory", data, "inventory", inventory,
               TimestampedModel(data, inventory.value))

MaintenancePredictions(data) ==
    LET risk_assessment == IF data.risk_assessment.kind = "absent" THEN Accepted(PyNone)
                           ELSE RiskAssessment(data.risk_assessment.data)
    IN  Entity("MaintenancePredictions", data, "risk_assessment", risk_assessment,
               MaintenancePredictionsModel(data, risk_assessment.value))

Models(data) ==
    Entity("Models", data, "", Accepted(PyNone), TimestampedModel(data, PyNone))

model_validate(class, data) ==
    CASE class = "DiagnosticCode" -> DiagnosticCode(data)
      [] class = "InventoryInfo" -> InventoryInfo(data)
      [] class = "StatisticalProfile" -> StatisticalProfile(data)
      [] class = "RiskAssessment" -> RiskAssessment(data)
      [] class = "Profile" -> Profile(data)
      [] class = "Users" -> Users(data)
      [] class = "EquipmentRegistry" -> EquipmentRegistry(data)
      [] class = "DiagnosticSessions" -> DiagnosticSessions(data)
      [] class = "PartsInventory" -> PartsInventory(data)
      [] class = "MaintenancePredictions" -> MaintenancePredictions(data)
      [] class = "Models" -> Models(data)
      [] class = "TrainingInfo" -> TrainingInfo(data)

\* the constructor of the model for the submitted record
Validate ==
    /\ candidate.model # ""
    /\ outcome.kind = "pending"
    /\ outcome' = model_validate(candidate.model, candidate.data)
    /\ UNCHANGED <<env, config, results, pc, table_pattern, fail_on, tables, idx, exit_code,
                   calls, returned, candidate, registries, lookups>>

----------------------------------------------------------------------------
(* The records submitted to the contracts *)

MaybeExtra(key) == {{}, {key}}

QuantityValues == {Absent, PyNone} \cup {PyInt(n) : n \in {-1, 0, 3, 10, 15, 25}}

InventoryData ==
    [quantity_on_hand : QuantityValues,
     quantity_allocated : QuantityValues,
     quantity_available : QuantityValues,
     reorder_point : {Absent, PyInt(10)},
     reorder_quantity : {Absent, PyInt(15)},
     max_stock_level : {Absent, PyInt(3), PyInt(25)},
     extra : MaybeExtra("bin")]

PercentileValues == {Absent} \cup {PyInt(n) : n \in {25, 50, 75, 80, 95}}

StatisticalProfileData ==
    [std_deviation : {Absent, PyInt(-1), PyInt(1)},
     percentile_25 : PercentileValues,
     percentile_75 : PercentileValues,
     percentile_95 : PercentileValues,
     extra : MaybeExtra("skew")]

RiskAssessmentData ==
    [overall_risk_score : {Absent, PyInt(5), PyInt(7), PyInt(11)},
     risk_level : {AbsentEnum, Enum("high")},
     extra : MaybeExtra("note")]

ProfileData == [phone : {Absent, PyInt(9), PyInt(12)}, extra : MaybeExtra("nickname")]

\* datetimes around the time of validation
Times == {Absent, PyInt(HoursAgo(1)), PyInt(Now)}

UsersData ==
    [email_verified : {Absent, PyInt(1)},
     email_verified_at : {Absent, PyInt(HoursAgo(2)), PyInt(Now)},
     last_login_at : {Absent, PyInt(HoursAgo(2))},
     is_active : {Absent, PyInt(0)},
     deleted_at : {Absent, PyInt(Now)},
     profile : {NoNested} \cup {Nested(p) : p \in ProfileData},
     created_at : Times,
     updated_at : Times,
     extra : MaybeExtra("nickname"),
     invalid : MaybeExtra("id")]

TimestampedData(key) ==
    [created_at : Times, updated_at : Times, extra : MaybeExtra("color"),
     invalid : MaybeExtra(key)]

PartsInventoryData ==
    [inventory : {NoNested}
                 \cup {Nested(i) : i \in {d \in InventoryData :
                          /\ d.quantity_on_hand \in {PyInt(10), PyInt(25)}
                          /\ d.quantity_allocated \in {PyInt(3), PyInt(15)}
                          /\ d.quantity_available = Absent
                          /\ d.reorder_point = Absent
                          /\ d.reorder_quantity = Absent
                          /\ d.max_stock_level = Absent}},
     created_at : Times,
     updated_at : Times,
     extra : MaybeExtra("color"),
     invalid : MaybeExtra("part_id")]

\* dates, in days
PredictionDate == 10

MaintenancePredictionsData ==
    [prediction_date : {PyInt(PredictionDate)},
     predicted_failure_date : {Absent, PyInt(PredictionDate - 1), PyInt(PredictionDate + 2)},
     predicted_maintenance_date : {Absent, PyInt(PredictionDate + 1)},
     scheduled_maintenance_date : {Absent, PyInt(PredictionDate - 1), PyInt(PredictionDate + 1)},
     status : {AbsentEnum} \cup {Enum(s) : s \in {"acknowledged", "scheduled", "completed",
                                                  "dismissed"}},
     acknowledged_at : {Absent, PyInt(Now)},
     completed_at : {Absent, PyInt(Now)},
     risk_assessment : {NoNested}
                       \cup {Nested(r) : r \in {d \in RiskAssessmentData :
                                                  d.overall_risk_score \in {Absent, PyInt(5)}}},
     created_at : {Absent, PyInt(Now)},
     updated_at : {Absent, PyInt(HoursAgo(1))},
     extra : MaybeExtra("color"),
     invalid : MaybeExtra("prediction_id")]

\* training intervals of no, half a, one and two and a half seconds, between
\* naive and between timezone-aware datetimes
TrainingTimes ==
    {AbsentTime, NoneTime} \cup {DateTime(t, aware) : t \in {0, 1, 2, 5}, aware \in BOOLEAN}

TrainingInfoData ==
    [training_rows : {Absent, PyInt(0), PyInt(10)},
     training_duration_seconds : {Absent, PyNone, PyInt(0), PyInt(7)},
     training_start : TrainingTimes,
     training_end : TrainingTimes,
     extra : MaybeExtra("notes")]

Candidates(class, records) == {[model |-> class, data |-> d] : d \in records}

\* one record, one contract; the runner is idle
InitContracts ==
    /\ registries = Registries
    /\ lookups = <<>>
    /\ now = Now
    /\ files = [quality |-> MissingFile, contracts |-> MissingFile, sla |-> MissingFile]
    /\ listing = [fail |-> TRUE, tables |-> <<>>]
    /\ wh = [t \in TableIds |-> AbsentTable]
    /\ quality_rules = Unloaded
    /\ table_contracts = Unloaded
    /\ sla_config = Unloaded
    /\ results = <<>>
    /\ pc = "new"
    /\ table_pattern = "*"
    /\ fail_on = "error"
    /\ tables = <<>>
    /\ idx = 0
    /\ exit_code = NoExit
    /\ calls = <<>>
    /\ returned = <<>>
    /\ outcome = NoOutcome
    /\ \/ candidate \in DiagnosticCodeCandidates
       \/ candidate \in Candidates("InventoryInfo", InventoryData)
       \/ candidate \in Candidates("StatisticalProfile", StatisticalProfileData)
       \/ candidate \in Candidates("RiskAssessment", RiskAssessmentData)
       \/ candidate \in Candidates("Profile", ProfileData)
       \/ candidate \in Candidates("Users", UsersData)
       \/ candidate \in Candidates("EquipmentRegistry", TimestampedData("id"))
       \/ candidate \in Candidates("DiagnosticSessions", TimestampedData("session_id"))
       \/ candidate \in Candidates("PartsInventory", PartsInventoryData)
       \/ candidate \in Candidates("MaintenancePredictions", MaintenancePredictionsData)
       \/ candidate \in Candidates("Models", TimestampedData("model_id"))
       \/ candidate \in Candidates("TrainingInfo", TrainingInfoData)

SpecContracts == InitContracts /\ [][Validate]_vars

\* model classes looked up by table and operation; no record is submitted
InitRegistry ==
    /\ InitProcess
    /\ files = [quality |-> MissingFile, contracts |-> MissingFile, sla |-> MissingFile]
    /\ listing = [fail |-> TRUE, tables |-> <<>>]
    /\ wh = [t \in TableIds |-> AbsentTable]
    /\ table_pattern = "*"
    /\ fail_on = "error"

SpecRegistry == InitRegistry /\ [][Lookup]_vars

----------------------------------------------------------------------------
(* Claims about the contracts, checked under SpecContracts *)

Validated(class) == candidate.model = class /\ outcome.kind # "pending"

EntityClasses ==
    {"Users", "EquipmentRegistry", "DiagnosticSessions", "PartsInventory",
     "MaintenancePredictions", "Models"}

\* the record gives the required fields and nothing else: every optional
\* field keeps its default, so every field constraint and cross-field
\* invariant of the contract is satisfied
Plain ==
    /\ candidate.model \in EntityClasses
    /\ candidate.data.extra = {}
    /\ candidate.data.invalid = {}
    /\ \A f \in DOMAIN candidate.data \ {"extra", "invalid", "prediction_date"} :
           candidate.data[f].kind = "absent"

\* C14: validating a record against an entity contract or a nested value
\* object ends with the validated value or with a list of typed violations,
\* never with another kind of exception; a record that satisfies every field
\* constraint and cross-field invariant is accepted.
C14_ValueOrViolations ==
    /\ outcome.kind \in {"pending", "value", "ValidationError"}
    /\ (Plain /\ outcome.kind # "pending") => outcome.kind = "value"

\* the characters of the submitted code
Code == candidate.data.code.s

NoReorderFields ==
    /\ candidate.data.reorder_point = Absent
    /\ candidate.data.reorder_quantity = Absent
    /\ candidate.data.max_stock_level = Absent

\* the quantity a submitted field stands for: 0 when absent or None
Quantity(f) == IF f.kind = "int" THEN f.v ELSE 0

QuantitiesInRange ==
    \A f \in {"quantity_on_hand", "quantity_allocated", "quantity_available"} :
        Quantity(candidate.data[f]) >= 0

OutOfOrder(low, high) ==
    /\ candidate.data[low].kind = "int"
    /\ candidate.data[high].kind = "int"
    /\ candidate.data[low].v > candidate.data[high].v

\* C17: StatisticalProfile rejects with a violation every profile in which
\* percentile_25 > percentile_75 or percentile_75 > percentile_95, and
\* accepts every profile whose present percentiles are in non-decreasing
\* order.
C17_PercentileOrder ==
    Validated("StatisticalProfile") =>
        IF OutOfOrder("percentile_25", "percentile_75")
           \/ OutOfOrder("percentile_75", "percentile_95")
        THEN outcome.kind = "ValidationError"
        ELSE (candidate.data.std_deviation = Absent
              /\ ~OutOfOrder("percentile_25", "percentile_95")) => outcome.kind = "value"

\* the field that the status asks for
RequiredByStatus(status) ==
    CASE status = "acknowledged" -> "acknowledged_at"
      [] status = "scheduled" -> "scheduled_maintenance_date"
      [] status = "completed" -> "completed_at"

\* every constraint of the record holds, the one of its status apart
OtherConstraintsHold ==
    /\ candidate.data.extra = {}
    /\ candidate.data.invalid = {}
    /\ candidate.data.risk_assessment = NoNested
    /\ candidate.data.predicted_failure_date = Absent
    /\ candidate.data.predicted_maintenance_date = Absent
    /\ candidate.data.scheduled_maintenance_date # PyInt(PredictionDate - 1)
    /\ candidate.data.created_at = Absent
    /\ candidate.data.updated_at = Absent

\* C18: a MaintenancePredictions record with status acknowledged, scheduled
\* or completed is rejected with a violation when acknowledged_at,
\* scheduled_maintenance_date or completed_at respectively is absent, and is
\* accepted when that field is present and every other constraint holds.
C18_StatusNeedsItsField ==
    (/\ Validated("MaintenancePredictions")
     /\ candidate.data.status.kind = "str"
     /\ candidate.data.status.e \in {"acknowledged", "scheduled", "completed"}) =>
        IF candidate.data[RequiredByStatus(candidate.data.status.e)] = Absent
        THEN outcome.kind = "ValidationError"
        ELSE OtherConstraintsHold => outcome.kind = "value"

\* C19: each of Users, EquipmentRegistry, DiagnosticSessions, PartsInventory,
\* MaintenancePredictions and Models rejects with a violation a record whose
\* updated_at is earlier than its created_at.
C19_UpdatedNotBeforeCreated ==
    (/\ candidate.model \in EntityClasses
     /\ outcome.kind # "pending"
     /\ Timestamp(candidate.data.updated_at).v < Timestamp(candidate.data.created_at).v) =>
        outcome.kind = "ValidationError"

\* the record carries a key that its contract does not declare, at the top
\* level or inside the nested value object
UnknownField ==
    \/ candidate.data.extra # {}
    \/ /\ candidate.model = "Users"
       /\ candidate.data.profile.kind = "dict"
       /\ candidate.data.profile.data.extra # {}
    \/ /\ candidate.model = "PartsInventory"
       /\ candidate.data.inventory.kind = "dict"
       /\ candidate.data.inventory.data.extra # {}
    \/ /\ candidate.model = "MaintenancePredictions"
       /\ candidate.data.risk_assessment.kind = "dict"
       /\ candidate.data.risk_assessment.data.extra # {}

\* C20: a record that carries a field its contract does not declare is
\* rejected, at the top level of an entity and inside a nested value object
\* of the entity (profile, inventory, risk_assessment).
C20_UnknownFieldsRejected ==
    (candidate.model \in EntityClasses /\ outcome.kind # "pending" /\ UnknownField) =>
        outcome.kind = "ValidationError"

----------------------------------------------------------------------------
(* C21: passed = true iff the error list is empty *)

\* a message that no stage produces, to apply the two operations once more
ProbeMessage == Msg("probe", "probe", 0)

\* the class invariant of a ValidationResult
PassedIffNoErrors(r) == r.passed <=> (r.errors = <<>>)

\* what add_error and add_warning do to a result r
OperationsKeepInvariant(r) ==
    LET e == add_error(r, ProbeMessage)
        w == add_warning(r, ProbeMessage)
    IN  /\ e.errors = Append(r.errors, ProbeMessage)
        /\ ~e.passed
        /\ e.warnings = r.warnings
        /\ ~add_warning(e, ProbeMessage).passed
        /\ ~add_error(e, ProbeMessage).passed
        /\ w.warnings = Append(r.warnings, ProbeMessage)
        /\ w.passed = r.passed
        /\ w.errors = r.errors
        /\ PassedIffNoErrors(e)
        /\ PassedIffNoErrors(w)

NewResults ==
    {ValidationResult(t, c) :
        t \in TableIds, c \in {"schema_compliance", "data_constraints", "freshness_sla"}}

\* C21: in every step, every result of the runner has passed = true iff its
\* error list is empty; a new result has passed = true and no errors or
\* warnings; add_error appends the message and sets passed = false, and a
\* failed result never passes again (neither by a further add_error or
\* add_warning nor in a later step of the run); add_warning appends to the
\* warnings only and leaves passed and errors unchanged.
C21_PassedIffNoErrors ==
    [][ /\ \A i \in DOMAIN results' :
              /\ PassedIffNoErrors(results'[i])
              /\ OperationsKeepInvariant(results'[i])
        /\ \A i \in DOMAIN results :
              /\ i \in DOMAIN results'
              /\ ~results[i].passed => ~results'[i].passed
        /\ \A r \in NewResults :
              /\ r.passed /\ r.errors = <<>> /\ r.warnings = <<>>
              /\ OperationsKeepInvariant(r)
      ]_vars

\* a finished run with a failed result (errors, passed = false) and a result
\* with a warning and no error, which passes
C21_Witness ==
    /\ pc = "done"
    /\ \E i \in DOMAIN results : results[i].errors # <<>> /\ ~results[i].passed
    /\ \E i \in DOMAIN results :
          /\ results[i].warnings # <<>>
          /\ results[i].errors = <<>>
          /\ results[i].passed

----------------------------------------------------------------------------
(* C22: the counts of the summary *)

\* the counters of a category in a summary, zero when the summary has none
CountersIn(summary, category) ==
    IF category \in DOMAIN summary.by_category
    THEN summary.by_category[category]
    ELSE [passed |-> 0, failed |-> 0, warnings |-> 0]

\* a counter summed over the three categories
SumOfCategories(summary, counter) ==
    SumOver([k \in DOMAIN StageOrder |-> CountersIn(summary, StageOrder[k])[counter]],
            Len(StageOrder))

\* C22: for the result list of every reachable state, the summary satisfies
\* total_checks = number of results = passed_checks + failed_checks; for each
\* category passed + failed is the number of results of that category; the
\* per-category passed, failed and warnings counters sum to passed_checks,
\* failed_checks and total_warnings; and failed_checks > 0 iff the exit code
\* computed from the same results is HARD_FAILURE.
C22_SummaryCounts ==
    LET summary == _generate_summary(results)
        stats   == summary.summary
    IN  /\ stats.total_checks = Len(results)
        /\ stats.total_checks = stats.passed_checks + stats.failed_checks
        /\ DOMAIN summary.by_category = CategoriesOf(results)
        /\ \A c \in DOMAIN summary.by_category :
              summary.by_category[c].passed + summary.by_category[c].failed
                  = Cardinality({i \in DOMAIN results : results[i].category = c})
        /\ SumOfCategories(summary, "passed") = stats.passed_checks
        /\ SumOfCategories(summary, "failed") = stats.failed_checks
        /\ SumOfCategories(summary, "warnings") = stats.total_warnings
        /\ (stats.failed_checks > 0) <=>
               (_determine_exit_code(results, fail_on) = EXIT_HARD_FAILURE)

\* a returned summary of two tables with a failed check, a passed check and a
\* warning on a check that passed
C22_Witness ==
    /\ pc = "done"
    /\ Len(returned) = 1
    /\ returned[1].results = results
    /\ "summary" \in DOMAIN returned[1].summary
    /\ returned[1].summary.summary.total_checks = 6
    /\ returned[1].summary.summary.failed_checks > 0
    /\ returned[1].summary.summary.passed_checks > 0
    /\ \E i \in DOMAIN results : results[i].passed /\ results[i].warnings # <<>>
    /\ returned[1].exit_code = EXIT_HARD_FAILURE

----------------------------------------------------------------------------
(* C25: the keys of the returned summary *)

\* the keys the JSON report is required to have
RequiredReportKeys == {"timestamp", "project_id", "dataset_id", "summary"}

\* C25: the summary every call of run_validation returned, which is what the
\* JSON report prints, has the keys timestamp, project_id, dataset_id and
\* summary, whatever the table pattern resolved to.
C25_SummaryKeys ==
    \A i \in DOMAIN returned : RequiredReportKeys \subseteq DOMAIN returned[i].summary

----------------------------------------------------------------------------
(* C23: the effective rules of a table *)

\* the sections of a rule set and the named rules inside them, a table-specific
\* value winning on a collision at both levels
EffectiveRules(global_rules, table_rules) ==
    [section \in (DOMAIN global_rules) \cup (DOMAIN table_rules) |->
        Merge(Get(global_rules, section, EmptyDict), Get(table_rules, section, EmptyDict))]

\* C23: the rules the data-constraints check of a table works with contain
\* every global rule the table does not redefine and every table-specific
\* rule, the table-specific value winning on a collision, for the sections and
\* for the named rules inside a section; the "no data quality rules" warning
\* is given iff these rules are empty, and then no aggregate query is sent.
C23_EffectiveRules ==
    \A k \in DOMAIN results :
        (results[k].category = "data_constraints" /\ ~quality_rules.none) =>
            LET t == results[k].name
                effective ==
                    EffectiveRules(quality_rules.global_rules,
                                   Get(quality_rules.table_rules, t, EmptyDict))
                warned == WarningsWith(results[k], "No data quality rules defined") # {}
            IN  /\ all_rules(t) = effective
                /\ \A n \in DOMAIN Get(effective, "patterns", EmptyDict) :
                       /\ PatternKey(n) \in DOMAIN results[k].details
                       /\ results[k].details[PatternKey(n)] = effective.patterns[n]
                /\ warned <=> (DOMAIN effective = {})
                /\ warned => Call("aggregate_query", t) \notin Range(calls)

----------------------------------------------------------------------------
(* C30: SLA entries that omit a value *)

\* C30: when a category lists the table, the freshness check queries the
\* warehouse and uses the defaults 24h and 12h for the values its SLA entry
\* omits, also when the entry omits both; the "no SLA configuration" warning
\* is given only for a table that no category lists.
C30_DefaultsForOmittedValues ==
    \A k \in DOMAIN results :
        (results[k].category = "freshness_sla" /\ ~sla_config.none) =>
            LET t == results[k].name
                listed == find_sla(t).found
                warned == WarningsWith(results[k], "No SLA configuration found") # {}
            IN  /\ warned => ~listed
                /\ (listed /\ max_staleness(t).valid /\ late_threshold(t).valid) =>
                       /\ Call("freshness_query", t) \in Range(calls)
                       /\ ComputedFrom(results[k], find_sla(t).entry)

----------------------------------------------------------------------------
(* C29: warning paths and error paths of a stage exclude each other *)

\* C29: every result a stage produced carries at most one warning, and never
\* both a warning and an error.
C29_OneWarningOrErrors ==
    \A k \in DOMAIN results :
        /\ Len(results[k].warnings) <= 1
        /\ ~(results[k].warnings # <<>> /\ results[k].errors # <<>>)

\* a table whose schema check has errors only, whose data check has the
\* failed-query warning only and whose freshness check has the stale-data
\* warning only
C29_Witness ==
    /\ Len(results) >= 3
    /\ results[1].errors # <<>> /\ results[1].warnings = <<>>
    /\ WarningsWith(results[2], "Could not validate timestamps") # {}
    /\ Len(results[2].warnings) = 1 /\ results[2].errors = <<>>
    /\ WarningsWith(results[3], "Data is stale") # {}
    /\ Len(results[3].warnings) = 1 /\ results[3].errors = <<>>

----------------------------------------------------------------------------
(* C28: an interrupted run *)

\* C28: when the run is interrupted in its loop, no check of a further table
\* or stage is started, the stage in flight (the one whose warehouse call has
\* been sent) finishes, that is its result joins the results, before the
\* process terminates, and the process exits with HARD_FAILURE (1).
C28_InterruptFinishesStage ==
    [][ (pc # "interrupted" /\ pc' = "interrupted") =>
            LET in_flight == calls' # calls
            IN  /\ exit_code' = EXIT_HARD_FAILURE
                /\ \/ calls' = calls
                   \/ calls' = calls \o stage_calls(pc, tables[idx])
                /\ in_flight => results' = Append(results, stage_result(pc, tables[idx]))
                /\ ~in_flight => results' = results
      ]_vars

----------------------------------------------------------------------------
(* C24: get_model *)

\* C24: every call of get_model so far returned a model class when the table
\* is one of get_table_names() and the operation is base, create, update or
\* response; it returned a class exactly when the operation is one of
\* get_available_operations(table); otherwise (unknown operation, unknown
\* table, no model for the operation) it raised KeyError, and it never
\* returned None; the registries are as the import left them.
C24_GetModel ==
    /\ registries = Registries
    /\ \A i \in DOMAIN lookups :
          LET l == lookups[i]
              succeeded == l.result.kind = "returned"
          IN  /\ (/\ l.table_name \in get_table_names
                  /\ l.operation \in {"base", "create", "update", "response"})
                     => succeeded
              /\ succeeded <=> l.operation \in Range(get_available_operations(l.table_name))
              /\ succeeded => /\ l.result.value # NoModelClass
                              /\ l.result.value \in
                                     {ModelClass(l.table_name, v) :
                                         v \in {"", "Create", "Update", "Response", "Summary"}}
              /\ ~succeeded => l.result.kind = "KeyError"

\* a lookup that returned a class, followed by one that raised KeyError for a
\* registered table without a summary model
C24_Witness ==
    /\ Len(lookups) = 2
    /\ lookups[1].table_name = "users" /\ lookups[1].operation = "create"
    /\ lookups[1].result = ReturnedClass(ModelClass("users", "Create"))
    /\ lookups[2].table_name = "users" /\ lookups[2].operation = "summary"
    /\ lookups[2].result.kind = "KeyError"

----------------------------------------------------------------------------
(* C26: an invariant that overwrites a field does not go on to reject *)

\* the evaluation of the cross-field invariant of the submitted record's class
\* on the record as field validation left it
InvariantEvaluation ==
    CASE candidate.model = "InventoryInfo" ->
            validate_inventory_consistency(InventoryModel(candidate.data))
      [] candidate.model = "TrainingInfo" ->
            validate_training_times(TrainingInfoModel(candidate.data))

\* the fields of the record validate, so that its invariant is evaluated
InvariantEvaluated ==
    \/ /\ Validated("InventoryInfo")
       /\ InventoryFieldErrors(candidate.data, InventoryFieldOrder) = <<>>
    \/ /\ Validated("TrainingInfo")
       /\ TrainingInfoFieldErrors(candidate.data) = <<>>

\* C26: in an evaluation of InventoryInfo.validate_inventory_consistency or of
\* TrainingInfo.validate_training_times, once the invariant has overwritten a
\* dependent field it does not go on to raise a violation.
C26_NoOverwriteThenRaise ==
    InvariantEvaluated =>
        ~(InvariantEvaluation.overwritten # {} /\ InvariantEvaluation.kind # "return")

----------------------------------------------------------------------------
(* C27: TrainingInfo *)

BothTimesPresent ==
    /\ candidate.data.training_start.kind = "datetime"
    /\ candidate.data.training_end.kind = "datetime"

\* what is claimed of a TrainingInfo with both times present
TrainingTimesRule ==
    LET training_start == candidate.data.training_start
        training_end == candidate.data.training_end
        supplied == candidate.data.training_duration_seconds
    IN  /\ (outcome.kind # "value") <=> (training_end.v <= training_start.v)
        /\ (outcome.kind = "value" /\ supplied.kind \in {"absent", "None"}) =>
               outcome.value.training_duration_seconds =
                   PyInt(WholeSeconds(training_end.v - training_start.v))
        /\ (outcome.kind = "value" /\ supplied.kind = "int") =>
               outcome.value.training_duration_seconds = supplied

\* C27: a TrainingInfo with both training_start and training_end
\* present is rejected iff training_end <= training_start; when it is accepted
\* and training_duration_seconds was omitted, the field is the whole number of
\* seconds from training_start to training_end; a supplied
\* training_duration_seconds is left unchanged.
C27_TrainingTimes ==
    (Validated("TrainingInfo") /\ BothTimesPresent) => TrainingTimesRule

====
